---- MODULE Spec2Model ----
(***************************************************************************)
(* A model of go-huml: the line-oriented lexer (lexer), the token-driven   *)
(* recursive-descent parser (streamParser), the decoding entry points      *)
(* (Unmarshal, Decoder.Decode) and the encoder (Marshal).                  *)
(*                                                                         *)
(* Bytes are one-character strings, byte strings are sequences of them.    *)
(* Go positions are 0-based and kept 0-based here: the byte at position p  *)
(* of a line is line[p + 1].  A nil line is the empty sequence: every use  *)
(* of l.line in the source tests l.pos against len(l.line) first, and a    *)
(* nil slice has length 0.                                                 *)
(***************************************************************************)
EXTENDS Integers, Sequences, FiniteSets, TLC

\* ------------------------------------------------------------------ bytes

\* The backtick byte (0x60); a TLA+ string cannot hold the character itself.
Backtick == "backtick"

\* The printable ASCII characters, from the space (32) to the tilde (126).
Printable ==
  <<" ", "!", "\"", "#", "$", "%", "&", "'", "(", ")", "*", "+",
     ",", "-", ".", "/", "0", "1", "2", "3", "4", "5", "6", "7",
     "8", "9", ":", ";", "<", "=", ">", "?", "@", "A", "B", "C",
     "D", "E", "F", "G", "H", "I", "J", "K", "L", "M", "N", "O",
     "P", "Q", "R", "S", "T", "U", "V", "W", "X", "Y", "Z", "[",
     "\\", "]", "^", "_", Backtick, "a", "b", "c", "d", "e", "f", "g",
     "h", "i", "j", "k", "l", "m", "n", "o", "p", "q", "r", "s",
     "t", "u", "v", "w", "x", "y", "z", "{", "|", "}", "~">>

\* The byte value of a character (ASCII).
ByteOf(c) ==
  CASE c = "<bs>" -> 8 [] c = "\t" -> 9 [] c = "\n" -> 10 [] c = "<vt>" -> 11
    [] c = "\f" -> 12 [] c = "\r" -> 13
    [] OTHER -> 31 + (CHOOSE i \in 1..Len(Printable) : Printable[i] = c)

isDigit(c) == ByteOf(c) >= 48 /\ ByteOf(c) <= 57

isAlpha(c) ==
  \/ (ByteOf(c) >= 97 /\ ByteOf(c) <= 122)
  \/ (ByteOf(c) >= 65 /\ ByteOf(c) <= 90)

isAlphaNum(c) == isAlpha(c) \/ isDigit(c)

isHex(c) ==
  \/ isDigit(c)
  \/ (ByteOf(c) >= 97 /\ ByteOf(c) <= 102)
  \/ (ByteOf(c) >= 65 /\ ByteOf(c) <= 70)

isOctal(c) == ByteOf(c) >= 48 /\ ByteOf(c) <= 55

isBinary(c) == c = "0" \/ c = "1"

isSpaceBytes(b) == \A i \in 1..Len(b) : b[i] = " "

\* ----------------------------------------------------------------- errors

\* An error value: its kind (the message, without the arguments) and the
\* line number of its "line N: " prefix, 0 when the message has no prefix.
NoErr == [kind |-> "nil", line |-> 0]

ErrEOF == [kind |-> "io.EOF", line |-> 0]

IsErr(e) == e.kind # "nil"

\* fmt.Errorf without a line prefix.
PlainErr(kind) == [kind |-> kind, line |-> 0]

\* fmt.Errorf("line %d: ...", n).
LineErr(n, kind) == [kind |-> kind, line |-> n]

\* ----------------------------------------------------------------- tokens

Token(type, value, line, column, indent, spaceBefore) ==
  [Type |-> type, Value |-> value, Line |-> line, Column |-> column,
   Indent |-> indent, SpaceBefore |-> spaceBefore]

\* Token{Type: TokenError}
ErrTok == Token("Error", <<>>, 0, 0, 0, FALSE)

\* Token{Type: TokenEOF, Line: l.lineNum}
EOFTok(l) == Token("EOF", <<>>, l.lineNum, 0, 0, FALSE)

\* A token of the current line starting at column startCol.
LineTok(l, type, value, startCol) ==
  Token(type, value, l.lineNum, startCol, l.curIndent, FALSE)

\* ------------------------------------------------------------------ lexer

\* A call of one of the functions of the program, by name (defined below,
\* after the functions).
RECURSIVE Call(_, _)

\* newLexer(r): rd is the unread input of the bufio.Reader.
newLexer(data) ==
  [rd |-> data, line |-> <<>>, lineNum |-> 0, pos |-> 0, eof |-> FALSE,
   err |-> NoErr, tokens |-> <<>>, tokPos |-> 0, atLineStart |-> TRUE,
   curIndent |-> 0, hadSpaceBefore |-> FALSE, inMultilineStr |-> FALSE]

\* l.line[p]
ByteAt(l, p) == l.line[p + 1]

\* l.line[from:to]
Slice(s, from, to) == SubSeq(s, from + 1, to)

errorf(l, kind) == LineErr(l.lineNum, kind)

\* Index (1-based) of the first newline of s, 0 when it has none.
NewlineIdx(s) ==
  IF \E i \in 1..Len(s) : s[i] = "\n"
  THEN CHOOSE i \in 1..Len(s) : s[i] = "\n" /\ \A j \in 1..(i - 1) : s[j] # "\n"
  ELSE 0

\* readLine: the next line without its newline; io.EOF when no byte is left.
readLine(l) ==
  IF l.rd = <<>>
  THEN [lx |-> l, err |-> ErrEOF]
  ELSE LET k    == NewlineIdx(l.rd)
           ln   == IF k = 0 THEN l.rd ELSE SubSeq(l.rd, 1, k - 1)
           rest == IF k = 0 THEN <<>> ELSE SubSeq(l.rd, k + 1, Len(l.rd))
           l1   == [l EXCEPT !.rd = rest,
                             !.eof = IF k = 0 THEN TRUE ELSE @,
                             !.lineNum = @ + 1,
                             !.line = ln,
                             !.pos = 0]
       IN IF ~l.inMultilineStr /\ Len(ln) > 0 /\ ln[Len(ln)] = " "
          THEN [lx |-> l1, err |-> errorf(l1, "trailing spaces are not allowed")]
          ELSE [lx |-> l1, err |-> NoErr]

RECURSIVE CountSpacesFrom(_, _)
CountSpacesFrom(s, p) ==
  IF p < Len(s) /\ s[p + 1] = " " THEN CountSpacesFrom(s, p + 1) ELSE p

\* countIndent: the number of leading spaces of the current line.
countIndent(l) == CountSpacesFrom(l.line, 0)

\* peekString: is s at the current position of the line?
peekString(l, s) ==
  IF l.pos + Len(s) > Len(l.line)
  THEN FALSE
  ELSE \A i \in 1..Len(s) : l.line[l.pos + i] = s[i]

\* validateComment: the '#' at l.pos must be followed by a space (or end the
\* line) and the line must not end in a space.
validateComment(l) ==
  IF l.pos >= Len(l.line) \/ ByteAt(l, l.pos) # "#"
  THEN NoErr
  ELSE IF l.pos + 1 < Len(l.line) /\ ByteAt(l, l.pos + 1) # " "
                                  /\ ByteAt(l, l.pos + 1) # "\n"
  THEN errorf(l, "comment hash '#' must be followed by a space")
  ELSE IF Len(l.line) > 0 /\ l.line[Len(l.line)] = " "
  THEN errorf(l, "trailing spaces are not allowed")
  ELSE NoErr

\* validateRemaining: after optional spaces the line must end or hold a comment.
validateRemaining(l) ==
  LET p  == CountSpacesFrom(l.line, l.pos)
      l1 == [l EXCEPT !.pos = IF l.pos < Len(l.line) THEN p ELSE @]
  IN IF l1.pos >= Len(l1.line)
     THEN IF l1.pos > l.pos
          THEN [lx |-> l1, err |-> errorf(l1, "trailing spaces are not allowed")]
          ELSE [lx |-> l1, err |-> NoErr]
     ELSE IF ByteAt(l1, l1.pos) = "#"
     THEN [lx |-> l1, err |-> validateComment(l1)]
     ELSE [lx |-> l1, err |-> errorf(l1, "unexpected content at end of line")]

\* consumeLine: validateRemaining, and on success the line is dropped.
consumeLine(l) ==
  LET p  == CountSpacesFrom(l.line, l.pos)
      l1 == [l EXCEPT !.pos = IF l.pos < Len(l.line) THEN p ELSE @]
  IN IF l1.pos >= Len(l1.line)
     THEN IF l1.pos > l.pos
          THEN [lx |-> l1, err |-> errorf(l1, "trailing spaces are not allowed")]
          ELSE [lx |-> [l1 EXCEPT !.line = <<>>], err |-> NoErr]
     ELSE IF ByteAt(l1, l1.pos) = "#"
     THEN IF IsErr(validateComment(l1))
          THEN [lx |-> l1, err |-> validateComment(l1)]
          ELSE [lx |-> [l1 EXCEPT !.line = <<>>], err |-> NoErr]
     ELSE [lx |-> l1, err |-> errorf(l1, "unexpected content at end of line")]

currentIndent(l) == l.curIndent

\* atEndOfLine: only spaces, then the end of the line or a '#'.
atEndOfLine(l) ==
  LET p == IF l.pos < Len(l.line) THEN CountSpacesFrom(l.line, l.pos) ELSE l.pos
  IN p >= Len(l.line) \/ ByteAt(l, p) = "#"

\* skipRequiredSpace: exactly one space at l.pos.
skipRequiredSpace(l, context) ==
  IF l.pos >= Len(l.line) \/ ByteAt(l, l.pos) # " "
  THEN [lx |-> l, err |-> errorf(l, "expected single space")]
  ELSE LET l1 == [l EXCEPT !.pos = @ + 1]
       IN IF l1.pos < Len(l1.line) /\ ByteAt(l1, l1.pos) = " "
          THEN [lx |-> l1, err |-> errorf(l1, "expected single space, found multiple")]
          ELSE [lx |-> l1, err |-> NoErr]

\* ------------------------------------------------------- lexer: scanning

\* The byte an escape character stands for; <<>> when the escape is invalid.
\* "<bs>" and "<vt>" are the bytes 0x08 and 0x0B.
EscapeByte(esc) ==
  CASE esc = "\"" -> <<"\"">>
    [] esc = "\\" -> <<"\\">>
    [] esc = "/"  -> <<"/">>
    [] esc = "b"  -> <<"<bs>">>
    [] esc = "f"  -> <<"\f">>
    [] esc = "n"  -> <<"\n">>
    [] esc = "r"  -> <<"\r">>
    [] esc = "t"  -> <<"\t">>
    [] esc = "v"  -> <<"<vt>">>
    [] OTHER      -> <<>>

\* The slow path of scanQuotedString: the loop over l.pos with l.strBuf = buf.
RECURSIVE scanQuotedSlow(_, _)
scanQuotedSlow(l, buf) ==
  IF l.pos >= Len(l.line)
  THEN [lx |-> l, str |-> <<>>, err |-> errorf(l, "unclosed string")]
  ELSE LET c == ByteAt(l, l.pos) IN
       IF c = "\""
       THEN [lx |-> [l EXCEPT !.pos = @ + 1], str |-> buf, err |-> NoErr]
       ELSE IF c = "\\"
       THEN LET l1 == [l EXCEPT !.pos = @ + 1] IN
            IF l1.pos >= Len(l1.line)
            THEN [lx |-> l1, str |-> <<>>, err |-> errorf(l1, "incomplete escape sequence")]
            ELSE IF EscapeByte(ByteAt(l1, l1.pos)) = <<>>
            THEN [lx |-> l1, str |-> <<>>, err |-> errorf(l1, "invalid escape character")]
            ELSE scanQuotedSlow([l1 EXCEPT !.pos = @ + 1],
                                buf \o EscapeByte(ByteAt(l1, l1.pos)))
       ELSE scanQuotedSlow([l EXCEPT !.pos = @ + 1], Append(buf, c))

\* scanQuotedString: a double-quoted string with escapes, from its opening quote.
scanQuotedString(l) ==
  LET l1    == [l EXCEPT !.pos = @ + 1]
      start == l1.pos
      quotes == {i \in start..(Len(l1.line) - 1) : ByteAt(l1, i) = "\""}
      q     == CHOOSE i \in quotes : \A j \in quotes : i <= j
      fast  == quotes # {} /\ \A j \in start..(q - 1) : ByteAt(l1, j) # "\\"
  IN IF fast
     THEN [lx |-> [l1 EXCEPT !.pos = q + 1], str |-> Slice(l1.line, start, q), err |-> NoErr]
     ELSE scanQuotedSlow(l1, <<>>)

\* scanKeyOrString: a quoted string is a key when a ':' follows it.
scanKeyOrString(l) ==
  LET startCol == l.pos
      r  == Call("scanQuotedString", <<l>>)
      l1 == [r.lx EXCEPT !.pos = CountSpacesFrom(r.lx.line, r.lx.pos)]
  IN IF IsErr(r.err)
     THEN [lx |-> r.lx, tok |-> ErrTok, err |-> r.err]
     ELSE IF l1.pos < Len(l1.line) /\ ByteAt(l1, l1.pos) = ":"
     THEN [lx |-> l1, tok |-> LineTok(l1, "QuotedKey", r.str, startCol), err |-> NoErr]
     ELSE [lx |-> l1, tok |-> LineTok(l1, "String", r.str, startCol), err |-> NoErr]

\* End of the run of bare-word bytes (alphanumeric, '_', '-') starting at p.
RECURSIVE WordEnd(_, _)
WordEnd(s, p) ==
  IF p < Len(s) /\ (isAlphaNum(s[p + 1]) \/ s[p + 1] = "_" \/ s[p + 1] = "-")
  THEN WordEnd(s, p + 1)
  ELSE p

kwTrue  == <<"t", "r", "u", "e">>
kwFalse == <<"f", "a", "l", "s", "e">>
kwNull  == <<"n", "u", "l", "l">>
kwNaN   == <<"n", "a", "n">>
kwInf   == <<"i", "n", "f">>

\* scanKeyOrKeyword without the keyword table: a bare identifier that is no
\* key is taken as a string.
scanKeyOrKeywordAsString(l) ==
  LET startCol == l.pos
      wend == WordEnd(l.line, l.pos)
      wb   == Slice(l.line, l.pos, wend)
      l1   == [l EXCEPT !.pos = CountSpacesFrom(l.line, wend)]
  IN IF l1.pos < Len(l1.line) /\ ByteAt(l1, l1.pos) = ":"
     THEN [lx |-> l1, tok |-> LineTok(l1, "Key", wb, startCol), err |-> NoErr]
     ELSE [lx |-> l1, tok |-> LineTok(l1, "String", wb, startCol), err |-> NoErr]

\* scanKeyOrKeyword: a bare identifier is a key when a ':' follows it, else it
\* must be a keyword.
scanKeyOrKeyword(l) ==
  LET startCol == l.pos
      wend == WordEnd(l.line, l.pos)
      wb   == Slice(l.line, l.pos, wend)
      l1   == [l EXCEPT !.pos = CountSpacesFrom(l.line, wend)]
  IN IF l1.pos < Len(l1.line) /\ ByteAt(l1, l1.pos) = ":"
     THEN [lx |-> l1, tok |-> LineTok(l1, "Key", wb, startCol), err |-> NoErr]
     ELSE IF wb = kwTrue
     THEN [lx |-> l1, tok |-> LineTok(l1, "Bool", kwTrue, startCol), err |-> NoErr]
     ELSE IF wb = kwFalse
     THEN [lx |-> l1, tok |-> LineTok(l1, "Bool", kwFalse, startCol), err |-> NoErr]
     ELSE IF wb = kwNull
     THEN [lx |-> l1, tok |-> LineTok(l1, "Null", kwNull, startCol), err |-> NoErr]
     ELSE IF wb = kwNaN
     THEN [lx |-> l1, tok |-> LineTok(l1, "NaN", kwNaN, startCol), err |-> NoErr]
     ELSE IF wb = kwInf
     THEN [lx |-> l1, tok |-> LineTok(l1, "Inf", <<"+">>, startCol), err |-> NoErr]
     ELSE [lx |-> l1, tok |-> ErrTok,
           err |-> errorf(l1, "unquoted string is not allowed")]

\* End of the run of digits of one base (and '_') starting at p.
RECURSIVE BaseDigitsEnd(_, _, _)
BaseDigitsEnd(s, p, base) ==
  IF p < Len(s) /\ (s[p + 1] = "_" \/ CASE base = 16 -> isHex(s[p + 1])
                                        [] base = 8  -> isOctal(s[p + 1])
                                        [] OTHER     -> isBinary(s[p + 1]))
  THEN BaseDigitsEnd(s, p + 1, base)
  ELSE p

\* scanBaseNumber: a number with a base prefix (0x, 0o, 0b); l.pos is at the '0'.
scanBaseNumber(l, start, startCol, base) ==
  LET numStart == l.pos + 2
      pend     == BaseDigitsEnd(l.line, numStart, base)
      l1       == [l EXCEPT !.pos = pend]
  IN IF pend = numStart
     THEN [lx |-> l1, tok |-> ErrTok,
           err |-> errorf(l1, "invalid number literal, requires digits after prefix")]
     ELSE [lx |-> l1, tok |-> LineTok(l1, "Int", Slice(l.line, start, pend), startCol),
           err |-> NoErr]

\* The decimal loop of scanNumber, stopping before the first digit.
DecimalEndStuck(s, p, isFloat) == <<p, isFloat>>

\* The decimal loop of scanNumber: <<end position, isFloat>>.
RECURSIVE DecimalEnd(_, _, _)
DecimalEnd(s, p, isFloat) ==
  IF p >= Len(s) THEN <<p, isFloat>>
  ELSE LET c == s[p + 1] IN
       IF isDigit(c) \/ c = "_" THEN DecimalEnd(s, p + 1, isFloat)
       ELSE IF c = "." THEN DecimalEnd(s, p + 1, TRUE)
       ELSE IF c = "e" \/ c = "E"
       THEN IF p + 1 < Len(s) /\ (s[p + 2] = "+" \/ s[p + 2] = "-")
            THEN DecimalEnd(s, p + 2, TRUE)
            ELSE DecimalEnd(s, p + 1, TRUE)
       ELSE <<p, isFloat>>

\* scanNumber: a numeric literal, or a signed inf.
scanNumber(l) ==
  LET startCol == l.pos
      start    == l.pos
      signed   == ByteAt(l, l.pos) = "+" \/ ByteAt(l, l.pos) = "-"
      sign     == ByteAt(l, l.pos)
      l1       == IF signed THEN [l EXCEPT !.pos = @ + 1] ELSE l
      dec      == DecimalEnd(l1.line, l1.pos, FALSE)
      l2       == [l1 EXCEPT !.pos = dec[1]]
  IN IF signed /\ peekString(l1, kwInf)
     THEN [lx |-> [l1 EXCEPT !.pos = @ + 3],
           tok |-> LineTok(l1, "Inf", IF sign = "-" THEN <<"-">> ELSE <<"+">>, startCol),
           err |-> NoErr]
     ELSE IF signed /\ (l1.pos >= Len(l1.line) \/ ~isDigit(ByteAt(l1, l1.pos)))
     THEN [lx |-> l1, tok |-> ErrTok, err |-> errorf(l1, "invalid char after sign")]
     ELSE IF ByteAt(l1, l1.pos) = "0" /\ l1.pos + 1 < Len(l1.line)
             /\ ByteAt(l1, l1.pos + 1) \in {"x", "X"}
     THEN Call("scanBaseNumber", <<l1, start, startCol, 16>>)
     ELSE IF ByteAt(l1, l1.pos) = "0" /\ l1.pos + 1 < Len(l1.line)
             /\ ByteAt(l1, l1.pos + 1) \in {"o", "O"}
     THEN Call("scanBaseNumber", <<l1, start, startCol, 8>>)
     ELSE IF ByteAt(l1, l1.pos) = "0" /\ l1.pos + 1 < Len(l1.line)
             /\ ByteAt(l1, l1.pos + 1) \in {"b", "B"}
     THEN Call("scanBaseNumber", <<l1, start, startCol, 2>>)
     ELSE [lx |-> l2,
           tok |-> LineTok(l2, IF dec[2] THEN "Float" ELSE "Int",
                           Slice(l.line, start, dec[1]), startCol),
           err |-> NoErr]

\* End of the version string of a %HUML directive: up to a space or a '#'.
RECURSIVE VersionEnd(_, _)
VersionEnd(s, p) ==
  IF p < Len(s) /\ s[p + 1] # " " /\ s[p + 1] # "#" THEN VersionEnd(s, p + 1) ELSE p

mlQuote == <<"\"", "\"", "\"">>


\* scanVersion: skips the %HUML directive and its version, then scans on.
scanVersion(l) ==
  LET l1 == [l EXCEPT !.pos = @ + 5]
      l2 == IF l1.pos < Len(l1.line) /\ ByteAt(l1, l1.pos) = " "
            THEN [l1 EXCEPT !.pos = VersionEnd(l1.line, l1.pos + 1)]
            ELSE l1
      r  == Call("validateRemaining", <<l2>>)
  IN IF IsErr(r.err)
     THEN [lx |-> r.lx, tok |-> ErrTok, err |-> r.err]
     ELSE Call("scan", <<[r.lx EXCEPT !.line = <<>>]>>)

\* scanToken: the next token of the current line.
scanToken(l) ==
  LET p0 == CountSpacesFrom(l.line, l.pos)
      l1 == [l EXCEPT !.hadSpaceBefore = (p0 > l.pos), !.pos = p0]
      startCol == l1.pos
      c  == ByteAt(l1, l1.pos)
  IN IF l1.pos >= Len(l1.line)
     THEN IF l1.eof
          THEN [lx |-> l1, tok |-> EOFTok(l1), err |-> NoErr]
          ELSE Call("scan", <<l1>>)
     ELSE IF l1.lineNum = 1 /\ l1.pos = 0 /\ peekString(l1, <<"%", "H", "U", "M", "L">>)
     THEN Call("scanVersion", <<l1>>)
     ELSE IF c = "-" /\ l1.pos = l1.curIndent
             /\ l1.pos + 1 < Len(l1.line) /\ ByteAt(l1, l1.pos + 1) = " "
     THEN [lx |-> [l1 EXCEPT !.pos = @ + 2],
           tok |-> LineTok(l1, "ListItem", <<>>, startCol), err |-> NoErr]
     ELSE IF peekString(l1, <<"[", "]">>)
     THEN [lx |-> [l1 EXCEPT !.pos = @ + 2],
           tok |-> LineTok(l1, "EmptyList", <<>>, startCol), err |-> NoErr]
     ELSE IF peekString(l1, <<"{", "}">>)
     THEN [lx |-> [l1 EXCEPT !.pos = @ + 2],
           tok |-> LineTok(l1, "EmptyDict", <<>>, startCol), err |-> NoErr]
     ELSE IF c = "\""
     THEN IF peekString(l1, mlQuote)
          THEN [lx |-> l1, tok |-> LineTok(l1, "String", mlQuote, startCol), err |-> NoErr]
          ELSE Call("scanKeyOrString", <<l1>>)
     ELSE IF isAlpha(c)
     THEN Call("scanKeyOrKeyword", <<l1>>)
     ELSE IF c = ":"
     THEN IF l1.pos + 1 < Len(l1.line) /\ ByteAt(l1, l1.pos + 1) = ":"
          THEN [lx |-> [l1 EXCEPT !.pos = @ + 2],
                tok |-> LineTok(l1, "VectorInd", <<>>, startCol), err |-> NoErr]
          ELSE [lx |-> [l1 EXCEPT !.pos = @ + 1],
                tok |-> LineTok(l1, "ScalarInd", <<>>, startCol), err |-> NoErr]
     ELSE IF c = ","
     THEN [lx |-> [l1 EXCEPT !.pos = @ + 1],
           tok |-> [LineTok(l1, "Comma", <<>>, startCol)
                      EXCEPT !.SpaceBefore = l1.hadSpaceBefore],
           err |-> NoErr]
     ELSE IF isDigit(c) \/ c = "+" \/ c = "-"
     THEN Call("scanNumber", <<l1>>)
     ELSE [lx |-> l1, tok |-> ErrTok, err |-> errorf(l1, "unexpected character")]

\* A line has just been read: l.atLineStart, l.curIndent and l.pos are set.
StartOfLine(l) ==
  [l EXCEPT !.atLineStart = TRUE, !.curIndent = countIndent(l), !.pos = countIndent(l)]

\* scan, first loop: read lines until the current one has bytes left.
scanFill(l) ==
  IF l.pos >= Len(l.line)
  THEN IF l.eof
       THEN [lx |-> l, tok |-> EOFTok(l), err |-> NoErr]
       ELSE LET r == Call("readLine", <<l>>) IN
            IF r.err = ErrEOF
            THEN [lx |-> [r.lx EXCEPT !.eof = TRUE], tok |-> EOFTok(r.lx), err |-> NoErr]
            ELSE IF IsErr(r.err)
            THEN [lx |-> [r.lx EXCEPT !.err = r.err], tok |-> ErrTok, err |-> r.err]
            ELSE Call("scanFill", <<StartOfLine(r.lx)>>)
  ELSE Call("scanSkip", <<l>>)

\* scan, second loop and tail: skip comment-only lines, then scan a token.
scanSkip(l) ==
  IF l.pos < Len(l.line) /\ ByteAt(l, l.pos) = "#"
  THEN IF IsErr(validateComment(l))
       THEN [lx |-> l, tok |-> ErrTok, err |-> validateComment(l)]
       ELSE IF l.eof
       THEN [lx |-> l, tok |-> EOFTok(l), err |-> NoErr]
       ELSE LET r == Call("readLine", <<l>>) IN
            IF r.err = ErrEOF
            THEN [lx |-> [r.lx EXCEPT !.eof = TRUE], tok |-> EOFTok(r.lx), err |-> NoErr]
            ELSE IF IsErr(r.err)
            THEN [lx |-> [r.lx EXCEPT !.err = r.err], tok |-> ErrTok, err |-> r.err]
            ELSE Call("scanSkip", <<StartOfLine(r.lx)>>)
  ELSE IF l.pos >= Len(l.line)
  THEN IF l.eof
       THEN [lx |-> l, tok |-> EOFTok(l), err |-> NoErr]
       ELSE Call("scan", <<l>>)
  ELSE Call("scanToken", <<l>>)

\* scan: the next token of the input.
scan(l) ==
  IF IsErr(l.err)
  THEN [lx |-> l, tok |-> ErrTok, err |-> l.err]
  ELSE Call("scanFill", <<l>>)

\* next: the next token, consumed.
next(l) ==
  IF l.tokPos < Len(l.tokens)
  THEN LET tk == l.tokens[l.tokPos + 1]
           l1 == [l EXCEPT !.tokPos = @ + 1]
       IN [lx  |-> IF l1.tokPos = Len(l1.tokens)
                   THEN [l1 EXCEPT !.tokens = <<>>, !.tokPos = 0]
                   ELSE l1,
           tok |-> tk, err |-> NoErr]
  ELSE Call("scan", <<l>>)

\* peek: the next token, kept in the lookahead buffer.
peek(l) ==
  IF l.tokPos < Len(l.tokens)
  THEN [lx |-> l, tok |-> l.tokens[l.tokPos + 1], err |-> NoErr]
  ELSE LET r == Call("scan", <<l>>) IN
       IF IsErr(r.err)
       THEN [lx |-> r.lx, tok |-> ErrTok, err |-> r.err]
       ELSE [lx |-> [r.lx EXCEPT !.tokens = Append(@, r.tok)], tok |-> r.tok, err |-> NoErr]

\* The line loop of scanMultilineString, with l.strBuf = buf.
scanMultilineLoop(l, buf, keyIndent, startLine, startCol) ==
  LET r == Call("readLine", <<l>>) IN
  IF r.err = ErrEOF
  THEN [lx |-> [r.lx EXCEPT !.eof = TRUE, !.inMultilineStr = FALSE], tok |-> ErrTok,
        err |-> LineErr(startLine, "unclosed multiline string")]
  ELSE IF IsErr(r.err)
  THEN [lx |-> [r.lx EXCEPT !.inMultilineStr = FALSE], tok |-> ErrTok, err |-> r.err]
  ELSE LET lineIndent == countIndent(r.lx)
           l1 == [r.lx EXCEPT !.pos = lineIndent]
           l2 == [l1 EXCEPT !.pos = @ + 3]
           v  == Call("validateRemaining", <<l2>>)
           reqIndent == keyIndent + 2
           lineContent ==
             IF Len(l1.line) >= reqIndent /\ isSpaceBytes(Slice(l1.line, 0, reqIndent))
             THEN Slice(l1.line, reqIndent, Len(l1.line))
             ELSE l1.line
       IN IF peekString(l1, mlQuote)
          THEN IF lineIndent # keyIndent
               THEN [lx |-> [l1 EXCEPT !.inMultilineStr = FALSE], tok |-> ErrTok,
                     err |-> errorf(l1, "multiline closing delimiter must be at same indentation as the key")]
               ELSE IF IsErr(v.err)
               THEN [lx |-> [v.lx EXCEPT !.inMultilineStr = FALSE], tok |-> ErrTok,
                     err |-> errorf(v.lx, "invalid content after multiline string closing delimiter")]
               ELSE [lx  |-> [v.lx EXCEPT !.line = <<>>, !.atLineStart = TRUE,
                                          !.inMultilineStr = FALSE],
                     tok |-> Token("String",
                                   IF Len(buf) > 0 /\ buf[Len(buf)] = "\n"
                                   THEN SubSeq(buf, 1, Len(buf) - 1) ELSE buf,
                                   startLine, startCol, keyIndent, FALSE),
                     err |-> NoErr]
          ELSE Call("scanMultilineLoop", <<l1, (buf \o lineContent) \o <<"\n">>,
                                            keyIndent, startLine, startCol>>)

\* scanMultilineString: the block that the """ at l.pos opens.
scanMultilineString(l, keyIndent) ==
  LET startLine == l.lineNum
      startCol  == l.pos
      v == Call("validateRemaining", <<[l EXCEPT !.pos = @ + 3]>>)
  IN IF IsErr(v.err)
     THEN [lx |-> v.lx, tok |-> ErrTok, err |-> v.err]
     ELSE Call("scanMultilineLoop", <<[v.lx EXCEPT !.inMultilineStr = TRUE], <<>>,
                                       keyIndent, startLine, startCol>>)

\* ----------------------------------------------------------------- values

\* The values Unmarshal stores into an `any`: nil, bool, int64, float64, string,
\* []any and map[string]any (a function from keys to values).
VNull == [t |-> "null"]
VBool(b) == [t |-> "bool", b |-> b]
VInt(i) == [t |-> "int", i |-> i]
VFloat(f) == [t |-> "float", f |-> f]
VString(str) == [t |-> "string", s |-> str]
VList(xs) == [t |-> "list", xs |-> xs]
VDict(m) == [t |-> "dict", m |-> m]

\* float64 values: NaN, the infinities, and m * 10^e with m not divisible by 10.
FNaN == [cls |-> "nan", m |-> 0, e |-> 0]
FInf(sign) == [cls |-> "inf", m |-> sign, e |-> 0]

RECURSIVE FNorm(_, _)
FNorm(m, e) ==
  IF m = 0 THEN [cls |-> "fin", m |-> 0, e |-> 0]
  ELSE IF m % 10 = 0 THEN FNorm(m \div 10, e + 1)
  ELSE [cls |-> "fin", m |-> m, e |-> e]

\* Width of the model's integers: int64 arithmetic is taken modulo 2^IntBits.
IntBits == 21

IntModulus == 2 ^ IntBits

\* Two's-complement wrap-around of an integer result.
WrapInt(x) == ((x + IntModulus \div 2) % IntModulus) - IntModulus \div 2

DigitValue(c) ==
  CASE ByteOf(c) >= 48 /\ ByteOf(c) <= 57  -> ByteOf(c) - 48
    [] ByteOf(c) >= 97 /\ ByteOf(c) <= 102 -> ByteOf(c) - 97 + 10
    [] ByteOf(c) >= 65 /\ ByteOf(c) <= 70  -> ByteOf(c) - 65 + 10
    [] OTHER -> -1

\* The digit loop of parseIntValue from index i (0-based) with accumulator val.
parseIntDigits(str, i, base, val) ==
  IF i >= Len(str) THEN [val |-> val, err |-> NoErr]
  ELSE LET c == str[i + 1] IN
       IF c = "_" THEN Call("parseIntDigits", <<str, i + 1, base, val>>)
       ELSE IF DigitValue(c) < 0
       THEN [val |-> 0, err |-> PlainErr("invalid digit")]
       ELSE IF DigitValue(c) >= base
       THEN [val |-> 0, err |-> PlainErr("invalid digit for base")]
       ELSE Call("parseIntDigits", <<str, i + 1, base, WrapInt(val * base + DigitValue(c))>>)

\* parseIntValue: the int64 an integer token stands for.
parseIntValue(str) ==
  LET signed == Len(str) > 0 /\ (str[1] = "+" \/ str[1] = "-")
      sign   == IF signed /\ str[1] = "-" THEN -1 ELSE 1
      idx    == IF signed THEN 1 ELSE 0
      prefix == IF Len(str) - idx > 2 THEN Slice(str, idx, idx + 2) ELSE <<>>
      base   == CASE prefix \in {<<"0", "x">>, <<"0", "X">>} -> 16
                  [] prefix \in {<<"0", "o">>, <<"0", "O">>} -> 8
                  [] prefix \in {<<"0", "b">>, <<"0", "B">>} -> 2
                  [] OTHER -> 10
      r      == Call("parseIntDigits", <<str, IF base = 10 THEN idx ELSE idx + 2, base, 0>>)
  IN IF IsErr(r.err) THEN r ELSE [val |-> WrapInt(sign * r.val), err |-> NoErr]

\* End of the run of decimal digits starting at p.
RECURSIVE DigitsEnd(_, _)
DigitsEnd(s, p) == IF p < Len(s) /\ isDigit(s[p + 1]) THEN DigitsEnd(s, p + 1) ELSE p

\* The number a run of decimal digits stands for.
RECURSIVE DigitsValue(_)
DigitsValue(ds) ==
  IF ds = <<>> THEN 0
  ELSE 10 * DigitsValue(SubSeq(ds, 1, Len(ds) - 1)) + DigitValue(ds[Len(ds)])

\* strconv.ParseFloat(s, 64) on [sign] digits [. digits] [e [sign] digits].
ParseFloat(str) ==
  LET signed == Len(str) > 0 /\ (str[1] = "+" \/ str[1] = "-")
      neg    == signed /\ str[1] = "-"
      p0     == IF signed THEN 1 ELSE 0
      p1     == DigitsEnd(str, p0)
      hasDot == p1 < Len(str) /\ str[p1 + 1] = "."
      p2     == IF hasDot THEN DigitsEnd(str, p1 + 1) ELSE p1
      intDs  == Slice(str, p0, p1)
      fracDs == IF hasDot THEN Slice(str, p1 + 1, p2) ELSE <<>>
      hasExp == p2 < Len(str) /\ (str[p2 + 1] = "e" \/ str[p2 + 1] = "E")
      expSgn == hasExp /\ p2 + 1 < Len(str) /\ (str[p2 + 2] = "+" \/ str[p2 + 2] = "-")
      p3     == IF hasExp THEN (IF expSgn THEN p2 + 2 ELSE p2 + 1) ELSE p2
      p4     == IF hasExp THEN DigitsEnd(str, p3) ELSE p2
      expV   == IF hasExp
                THEN (IF expSgn /\ str[p2 + 2] = "-" THEN -1 ELSE 1)
                       * DigitsValue(Slice(str, p3, p4))
                ELSE 0
      mant   == DigitsValue(intDs \o fracDs)
  IN IF Len(intDs) + Len(fracDs) = 0 \/ (hasExp /\ p4 = p3) \/ p4 # Len(str)
     THEN [val |-> FNorm(0, 0), err |-> PlainErr("strconv.ParseFloat: invalid syntax")]
     ELSE [val |-> FNorm(IF neg THEN -mant ELSE mant, expV - Len(fracDs)), err |-> NoErr]

\* strings.ReplaceAll(s, "_", "")
RECURSIVE StripUnderscores(_)
StripUnderscores(str) ==
  IF str = <<>> THEN <<>>
  ELSE IF str[1] = "_" THEN StripUnderscores(Tail(str))
  ELSE <<str[1]>> \o StripUnderscores(Tail(str))

\* parseFloatValue: the float64 a float token stands for.
parseFloatValue(str) == Call("ParseFloat", <<StripUnderscores(str)>>)

\* tokenToValue: the Go value of a value token.
tokenToValue(tok) ==
  CASE tok.Type = "String" -> [val |-> VString(tok.Value), err |-> NoErr]
    [] tok.Type = "Int" ->
         [val |-> VInt(Call("parseIntValue", <<tok.Value>>).val), err |-> Call("parseIntValue", <<tok.Value>>).err]
    [] tok.Type = "Float" ->
         [val |-> VFloat(Call("parseFloatValue", <<tok.Value>>).val),
          err |-> Call("parseFloatValue", <<tok.Value>>).err]
    [] tok.Type = "Bool" -> [val |-> VBool(tok.Value = kwTrue), err |-> NoErr]
    [] tok.Type = "Null" -> [val |-> VNull, err |-> NoErr]
    [] tok.Type = "NaN" -> [val |-> VFloat(FNaN), err |-> NoErr]
    [] tok.Type = "Inf" ->
         [val |-> VFloat(FInf(IF tok.Value = <<"-">> THEN -1 ELSE 1)), err |-> NoErr]
    [] tok.Type = "EOF" ->
         [val |-> VNull, err |-> PlainErr("unexpected end of input, expected a value")]
    [] tok.Type = "Error" -> [val |-> VNull, err |-> PlainErr("error token")]
    [] OTHER ->
         [val |-> VNull, err |-> LineErr(tok.Line, "unexpected token when parsing value")]

\* ----------------------------------------------------------- streamParser

\* A parser step's result: the lexer after it, the value and the error.
Res(l, v, e) == [lx |-> l, val |-> v, err |-> e]

\* map[string]any{..., key: val}
DictPut(m, key, val) ==
  [k \in (DOMAIN m) \cup {key} |-> IF k = key THEN val ELSE m[k]]

\* hasVectorIndicatorAfterKey: is the first ':' from l.pos on the line a "::"?
hasVectorIndicatorAfterKey(l) ==
  LET colons == {i \in l.pos..(Len(l.line) - 1) : ByteAt(l, i) = ":"}
      p == IF colons = {} THEN Len(l.line)
           ELSE CHOOSE i \in colons : \A j \in colons : i <= j
  IN p + 1 < Len(l.line) /\ ByteAt(l, p) = ":" /\ ByteAt(l, p + 1) = ":"

\* hasCommaOnLine: is there a ',' from l.pos to the end of the current line?
hasCommaOnLine(l) == \E i \in l.pos..(Len(l.line) - 1) : ByteAt(l, i) = ","

isValueToken(t) == t \in {"String", "Int", "Float", "Bool", "Null", "NaN", "Inf"}

\* inferRootType: the root's form, from the first token and the first line.
inferRootType(l) ==
  LET pk == Call("peek", <<l>>)
      ty == pk.tok.Type
  IN IF IsErr(pk.err) THEN [lx |-> pk.lx, typ |-> "typeScalar", err |-> pk.err]
     ELSE [lx  |-> pk.lx,
           typ |-> CASE ty = "EmptyList" -> "typeEmptyList"
                     [] ty = "EmptyDict" -> "typeEmptyDict"
                     [] ty = "ListItem" -> "typeMultilineList"
                     [] ty \in {"Key", "QuotedKey"} ->
                          IF hasVectorIndicatorAfterKey(pk.lx) THEN "typeMultilineDict"
                          ELSE IF hasCommaOnLine(pk.lx) THEN "typeInlineDict"
                          ELSE "typeMultilineDict"
                     [] isValueToken(ty) \/ ty = "String" ->
                          IF hasCommaOnLine(pk.lx) THEN "typeInlineList" ELSE "typeScalar"
                     [] OTHER -> "typeScalar",
           err |-> NoErr]

\* assertRootEnd: nothing but the end of input may follow the root.
assertRootEnd(l, val) ==
  LET pk == Call("peek", <<l>>) IN
  IF IsErr(pk.err) THEN Res(pk.lx, VNull, pk.err)
  ELSE IF pk.tok.Type # "EOF"
  THEN Res(pk.lx, VNull, LineErr(pk.tok.Line, "unexpected content after root"))
  ELSE Res(pk.lx, val, NoErr)

\* parseInlineValue: one value token, converted.
parseInlineValue(l) ==
  LET n == Call("next", <<l>>) IN
  IF IsErr(n.err) THEN Res(n.lx, VNull, n.err)
  ELSE Res(n.lx, Call("tokenToValue", <<n.tok>>).val, Call("tokenToValue", <<n.tok>>).err)

\* A scalar after "key: ", after "- " or at the root: a multi-line string when
\* the peeked token is a string token with the value """, else an inline value
\* and the rest of its line.
ScalarAndLine(l, keyIndent) ==
  LET pk == Call("peek", <<l>>) IN
  IF IsErr(pk.err) THEN Res(pk.lx, VNull, pk.err)
  ELSE IF pk.tok.Type = "String" /\ pk.tok.Value = mlQuote
  THEN LET ml == Call("scanMultilineString", <<Call("next", <<pk.lx>>).lx, keyIndent>>) IN
       IF IsErr(ml.err) THEN Res(ml.lx, VNull, ml.err)
       ELSE Res(ml.lx, VString(ml.tok.Value), NoErr)
  ELSE LET v == Call("parseInlineValue", <<pk.lx>>)
           c == Call("consumeLine", <<v.lx>>)
       IN IF IsErr(v.err) THEN Res(v.lx, VNull, v.err)
          ELSE IF IsErr(c.err) THEN Res(c.lx, VNull, c.err)
          ELSE Res(c.lx, v.val, NoErr)

parseScalarValue(l, keyIndent) == Call("ScalarAndLine", <<l, keyIndent>>)

parseListItemValue(l, indent) == Call("ScalarAndLine", <<l, indent>>)

parseRootScalar(l) == Call("ScalarAndLine", <<l, 0>>)

\* The duplicate-key test left out: no key is ever found.
KeyExistsNever(out, key) == FALSE

\* The duplicate-key test of parseMultilineDict and parseInlineDict.
KeyExists(out, key) == key \in DOMAIN out

\* The loop of parseInlineList, with the list so far.
parseInlineListLoop(l, out, isFirst) ==
  IF atEndOfLine(l) THEN Res(l, VList(out), NoErr)
  ELSE LET pk == Call("peek", <<l>>) IN
       IF IsErr(pk.err) THEN Res(pk.lx, VNull, pk.err)
       ELSE IF pk.tok.Type = "EOF" THEN Res(pk.lx, VList(out), NoErr)
       ELSE IF ~isFirst /\ pk.tok.Type # "Comma" THEN Res(pk.lx, VList(out), NoErr)
       ELSE IF ~isFirst /\ pk.tok.SpaceBefore
       THEN Res(pk.lx, VNull, errorf(pk.lx, "no spaces allowed before comma"))
       ELSE LET sp == IF isFirst THEN [lx |-> pk.lx, err |-> NoErr]
                      ELSE skipRequiredSpace(Call("next", <<pk.lx>>).lx, "after comma")
                v  == Call("parseInlineValue", <<sp.lx>>)
            IN IF IsErr(sp.err) THEN Res(sp.lx, VNull, sp.err)
               ELSE IF IsErr(v.err) THEN Res(v.lx, VNull, v.err)
               ELSE Call("parseInlineListLoop", <<v.lx, Append(out, v.val), FALSE>>)

\* parseInlineList: val, val, val
parseInlineList(l) == Call("parseInlineListLoop", <<l, <<>>, TRUE>>)

\* The loop of parseInlineDict, with the dict so far.
parseInlineDictLoop(l, out, isFirst) ==
  IF atEndOfLine(l) THEN Res(l, VDict(out), NoErr)
  ELSE LET pk == Call("peek", <<l>>) IN
       IF IsErr(pk.err) THEN Res(pk.lx, VNull, pk.err)
       ELSE IF pk.tok.Type = "EOF" THEN Res(pk.lx, VDict(out), NoErr)
       ELSE IF ~isFirst /\ pk.tok.Type # "Comma" THEN Res(pk.lx, VDict(out), NoErr)
       ELSE IF ~isFirst /\ pk.tok.SpaceBefore
       THEN Res(pk.lx, VNull, errorf(pk.lx, "no spaces allowed before comma"))
       ELSE LET sp  == IF isFirst THEN [lx |-> pk.lx, err |-> NoErr]
                       ELSE skipRequiredSpace(Call("next", <<pk.lx>>).lx, "after comma")
                pk2 == IF isFirst THEN pk ELSE Call("peek", <<sp.lx>>)
                keyN == Call("next", <<pk2.lx>>)
                key  == keyN.tok.Value
                ind  == Call("next", <<keyN.lx>>)
                sp2  == skipRequiredSpace(ind.lx, "in inline dict")
                v    == Call("parseInlineValue", <<sp2.lx>>)
            IN IF IsErr(sp.err) THEN Res(sp.lx, VNull, sp.err)
               ELSE IF IsErr(pk2.err) THEN Res(pk2.lx, VNull, pk2.err)
               ELSE IF pk2.tok.Type \notin {"Key", "QuotedKey"}
               THEN Res(pk2.lx, VNull, LineErr(pk2.tok.Line, "expected key in inline dict"))
               ELSE IF KeyExists(out, key)
               THEN Res(keyN.lx, VNull, LineErr(keyN.tok.Line, "duplicate key in dict"))
               ELSE IF IsErr(ind.err) THEN Res(ind.lx, VNull, ind.err)
               ELSE IF ind.tok.Type # "ScalarInd"
               THEN Res(ind.lx, VNull, LineErr(ind.tok.Line, "expected ':' in inline dict"))
               ELSE IF IsErr(sp2.err) THEN Res(sp2.lx, VNull, sp2.err)
               ELSE IF IsErr(v.err) THEN Res(v.lx, VNull, v.err)
               ELSE Call("parseInlineDictLoop", <<v.lx, DictPut(out, key, v.val), FALSE>>)

\* parseInlineDict: key: val, key: val
parseInlineDict(l) == Call("parseInlineDictLoop", <<l, <<>>, TRUE>>)

\* parseInlineVectorValue: [], {}, or comma-separated items, and the rest of
\* the line.
parseInlineVectorValue(l) ==
  LET pk == Call("peek", <<l>>)
      r  == CASE pk.tok.Type = "EmptyList" -> Res(Call("next", <<pk.lx>>).lx, VList(<<>>), NoErr)
              [] pk.tok.Type = "EmptyDict" -> Res(Call("next", <<pk.lx>>).lx, VDict(<<>>), NoErr)
              [] pk.tok.Type \in {"Key", "QuotedKey"} -> Call("parseInlineDict", <<pk.lx>>)
              [] OTHER -> Call("parseInlineList", <<pk.lx>>)
      c  == Call("consumeLine", <<r.lx>>)
  IN IF IsErr(pk.err) THEN Res(pk.lx, VNull, pk.err)
     ELSE IF IsErr(r.err) THEN Res(r.lx, VNull, r.err)
     ELSE IF IsErr(c.err) THEN Res(c.lx, VNull, c.err)
     ELSE Res(c.lx, r.val, NoErr)

\* The indentation test left out: every indentation passes.
isBadIndentNever(tok, indent) == FALSE

\* The indentation test of parseMultilineDict and parseMultilineList: the
\* token is indented deeper than the block.
isBadIndent(tok, indent) == tok.Indent # indent

\* The empty-vector test that looks at the end of the input only.
isEmptyVectorAtEOF(tok, indent) == tok.Type = "EOF"

\* The test of parseVector for a "::" with nothing to open a block after it.
isEmptyVector(tok, indent) == tok.Type = "EOF" \/ tok.Indent < indent


\* The loop of parseMultilineDict, with the dict so far.
parseMultilineDictLoop(l, indent, out) ==
  LET pk == Call("peek", <<l>>) IN
  IF IsErr(pk.err) THEN Res(pk.lx, VNull, pk.err)
  ELSE IF pk.tok.Type = "EOF" THEN Res(pk.lx, VDict(out), NoErr)
  ELSE IF pk.tok.Indent < indent THEN Res(pk.lx, VDict(out), NoErr)
  ELSE IF isBadIndent(pk.tok, indent)
  THEN Res(pk.lx, VNull, LineErr(pk.tok.Line, "bad indent"))
  ELSE IF pk.tok.Type \notin {"Key", "QuotedKey"}
  THEN Res(pk.lx, VNull, LineErr(pk.tok.Line, "invalid character, expected key"))
  ELSE LET keyN == Call("next", <<pk.lx>>)
           key  == keyN.tok.Value
           ind  == Call("next", <<keyN.lx>>)
           sp   == skipRequiredSpace(ind.lx, "after ':'")
           v    == IF ind.tok.Type = "ScalarInd"
                   THEN (IF IsErr(sp.err) THEN Res(sp.lx, VNull, sp.err)
                         ELSE Call("parseScalarValue", <<sp.lx, indent>>))
                   ELSE Call("parseVector", <<ind.lx, indent + 2>>)
       IN IF KeyExists(out, key)
          THEN Res(keyN.lx, VNull, LineErr(keyN.tok.Line, "duplicate key in dict"))
          ELSE IF IsErr(ind.err) THEN Res(ind.lx, VNull, ind.err)
          ELSE IF ind.tok.Type \notin {"ScalarInd", "VectorInd"}
          THEN Res(ind.lx, VNull, LineErr(ind.tok.Line, "expected ':' or '::' after key"))
          ELSE IF IsErr(v.err) THEN Res(v.lx, VNull, v.err)
          ELSE Call("parseMultilineDictLoop", <<v.lx, indent, DictPut(out, key, v.val)>>)

\* The loop of parseMultilineList, with the list so far.
parseMultilineListLoop(l, indent, out) ==
  LET pk == Call("peek", <<l>>) IN
  IF IsErr(pk.err) THEN Res(pk.lx, VNull, pk.err)
  ELSE IF pk.tok.Type = "EOF" THEN Res(pk.lx, VList(out), NoErr)
  ELSE IF pk.tok.Indent < indent THEN Res(pk.lx, VList(out), NoErr)
  ELSE IF isBadIndent(pk.tok, indent)
  THEN Res(pk.lx, VNull, LineErr(pk.tok.Line, "bad indent"))
  ELSE IF pk.tok.Type # "ListItem" THEN Res(pk.lx, VList(out), NoErr)
  ELSE LET l1 == Call("next", <<pk.lx>>).lx
           nx == Call("peek", <<l1>>)
           v  == IF nx.tok.Type = "VectorInd"
                 THEN Call("parseVector", <<Call("next", <<nx.lx>>).lx, indent + 2>>)
                 ELSE Call("parseListItemValue", <<nx.lx, indent>>)
       IN IF IsErr(nx.err) THEN Res(nx.lx, VNull, nx.err)
          ELSE IF IsErr(v.err) THEN Res(v.lx, VNull, v.err)
          ELSE Call("parseMultilineListLoop", <<v.lx, indent, Append(out, v.val)>>)

\* parseVector: the vector after a "::", inline or on the following lines.
parseVector(l, indent) ==
  IF atEndOfLine(l)
  THEN LET c  == Call("consumeLine", <<l>>)
           pk == Call("peek", <<c.lx>>)
       IN IF IsErr(c.err) THEN Res(c.lx, VNull, c.err)
          ELSE IF IsErr(pk.err) THEN Res(pk.lx, VNull, pk.err)
          ELSE IF isEmptyVector(pk.tok, indent)
          THEN Res(pk.lx, VNull, LineErr(pk.tok.Line, "ambiguous empty vector after '::'"))
          ELSE IF pk.tok.Type = "ListItem"
          THEN Call("parseMultilineListLoop", <<pk.lx, indent, <<>>>>)
          ELSE Call("parseMultilineDictLoop", <<pk.lx, indent, <<>>>>)
  ELSE LET sp == skipRequiredSpace(l, "after '::'") IN
       IF IsErr(sp.err) THEN Res(sp.lx, VNull, sp.err)
       ELSE Call("parseInlineVectorValue", <<sp.lx>>)

parseMultilineDict(l, indent) == Call("parseMultilineDictLoop", <<l, indent, <<>>>>)

parseMultilineList(l, indent) == Call("parseMultilineListLoop", <<l, indent, <<>>>>)

\* The root forms that end with consumeLine and assertRootEnd.
RootLine(r) ==
  LET c == Call("consumeLine", <<r.lx>>) IN
  IF IsErr(r.err) THEN Res(r.lx, VNull, r.err)
  ELSE IF IsErr(c.err) THEN Res(c.lx, VNull, c.err)
  ELSE Call("assertRootEnd", <<c.lx, r.val>>)

\* parse: the whole document.
parse(l) ==
  LET pk == Call("peek", <<l>>)
      rt == Call("inferRootType", <<pk.lx>>)
      sc == Call("parseRootScalar", <<rt.lx>>)
  IN IF IsErr(pk.err) THEN Res(pk.lx, VNull, pk.err)
     ELSE IF pk.tok.Type = "EOF"
     THEN Res(pk.lx, VNull, PlainErr("empty document is undefined"))
     ELSE IF pk.tok.Indent # 0
     THEN Res(pk.lx, VNull, LineErr(pk.tok.Line, "root element must not be indented"))
     ELSE IF IsErr(rt.err) THEN Res(rt.lx, VNull, rt.err)
     ELSE CASE rt.typ = "typeScalar" ->
                 IF IsErr(sc.err) THEN Res(sc.lx, VNull, sc.err)
                 ELSE Call("assertRootEnd", <<sc.lx, sc.val>>)
            [] rt.typ = "typeEmptyList" -> Call("RootLine", <<Res(Call("next", <<rt.lx>>).lx, VList(<<>>), NoErr)>>)
            [] rt.typ = "typeEmptyDict" -> Call("RootLine", <<Res(Call("next", <<rt.lx>>).lx, VDict(<<>>), NoErr)>>)
            [] rt.typ = "typeMultilineList" -> Call("parseMultilineList", <<rt.lx, 0>>)
            [] rt.typ = "typeMultilineDict" -> Call("parseMultilineDict", <<rt.lx, 0>>)
            [] rt.typ = "typeInlineList" -> Call("RootLine", <<Call("parseInlineList", <<rt.lx>>)>>)
            [] rt.typ = "typeInlineDict" -> Call("RootLine", <<Call("parseInlineDict", <<rt.lx>>)>>)

\* What Decode returns for the result r of parse: the value it stored and
\* the error.
Decode(r) == [val |-> r.val, err |-> r.err]

\* Unmarshal into a *any: the error and, on success, the value stored.
Unmarshal(data) ==
  IF Len(data) = 0
  THEN [val |-> VNull, err |-> PlainErr("empty document is undefined")]
  ELSE Decode(Call("parse", <<newLexer(data)>>))

\* ---------------------------------------------------------------- encoder

\* newState(w): the encoding state of one Marshal or Encode call; w is what
\* has been written to the writer.
newState == [w |-> <<>>, err |-> NoErr]

\* state.write: appends to the writer unless an error has been recorded.
write(st, str) == IF IsErr(st.err) THEN st ELSE [st EXCEPT !.w = @ \o str]

\* strings.Repeat(" ", n)
Spaces(n) == [i \in 1..n |-> " "]

\* The decimal digits of n >= 0.
RECURSIVE NatDigits(_)
NatDigits(n) ==
  IF n < 10 THEN <<CHOOSE c \in {"0", "1", "2", "3", "4", "5", "6", "7", "8", "9"} :
                     DigitValue(c) = n>>
  ELSE NatDigits(n \div 10) \o NatDigits(n % 10)

\* strconv.FormatInt(n, 10)
FormatInt(n) == IF n < 0 THEN <<"-">> \o NatDigits(-n) ELSE NatDigits(n)

\* The digit at index j (0-based) of the digit string ds, '0' outside it.
DigitOr0(ds, j) == IF j >= 0 /\ j < Len(ds) THEN ds[j + 1] ELSE "0"

\* strconv.FormatFloat(f, 'g', -1, 64) for a finite f = m * 10^e: %e form when
\* the decimal exponent is below -4 or at least 6, else %f form.
FormatFloat(f) ==
  LET neg  == f.m < 0
      ds   == IF f.m = 0 THEN <<>> ELSE NatDigits(IF neg THEN -f.m ELSE f.m)
      nd   == Len(ds)
      dp   == IF f.m = 0 THEN 0 ELSE nd + f.e
      exp  == dp - 1
      sgn  == IF neg THEN <<"-">> ELSE <<>>
      eexp == IF nd = 0 THEN 0 ELSE exp
      expDs == NatDigits(IF eexp < 0 THEN -eexp ELSE eexp)
      eForm == sgn \o <<DigitOr0(ds, 0)>>
                   \o (IF nd > 1 THEN <<".">> \o SubSeq(ds, 2, nd) ELSE <<>>)
                   \o <<"e", IF eexp < 0 THEN "-" ELSE "+">>
                   \o (IF Len(expDs) < 2 THEN <<"0">> \o expDs ELSE expDs)
      prec  == IF nd > dp THEN nd - dp ELSE 0
      fForm == sgn \o (IF dp > 0 THEN [i \in 1..dp |-> DigitOr0(ds, i - 1)] ELSE <<"0">>)
                   \o (IF prec > 0
                       THEN <<".">> \o [i \in 1..prec |-> DigitOr0(ds, dp + i - 1)]
                       ELSE <<>>)
  IN IF exp < -4 \/ exp >= 6 THEN eForm ELSE fForm

\* strconv.Quote on the bytes of the model.
RECURSIVE QuoteBody(_)
QuoteBody(str) ==
  IF str = <<>> THEN <<>>
  ELSE (CASE str[1] = "\""   -> <<"\\", "\"">>
          [] str[1] = "\\"   -> <<"\\", "\\">>
          [] str[1] = "\n"   -> <<"\\", "n">>
          [] str[1] = "\t"   -> <<"\\", "t">>
          [] str[1] = "\r"   -> <<"\\", "r">>
          [] str[1] = "\f"   -> <<"\\", "f">>
          [] str[1] = "<bs>" -> <<"\\", "b">>
          [] str[1] = "<vt>" -> <<"\\", "v">>
          [] OTHER -> <<str[1]>>) \o QuoteBody(Tail(str))

Quote(str) == (<<"\"">> \o QuoteBody(str)) \o <<"\"">>

\* bareKeyRegex: ^[a-zA-Z0-9_-]+$
bareKeyRegex(key) ==
  /\ Len(key) > 0
  /\ \A i \in 1..Len(key) : isAlphaNum(key[i]) \/ key[i] = "_" \/ key[i] = "-"

\* quoteKeyIfNeeded: bare keys as they are, all others quoted.
quoteKeyIfNeeded(key) == IF bareKeyRegex(key) THEN key ELSE Quote(key)

\* Go's string comparison a < b: byte-wise lexicographic.
RECURSIVE StrLess(_, _)
StrLess(a, b) ==
  IF b = <<>> THEN FALSE
  ELSE IF a = <<>> THEN TRUE
  ELSE IF ByteOf(a[1]) # ByteOf(b[1]) THEN ByteOf(a[1]) < ByteOf(b[1])
  ELSE StrLess(Tail(a), Tail(b))

\* The elements of a set of strings as a sequence (ascending).
RECURSIVE SetToSeq(_)
SetToSeq(S) ==
  IF S = {} THEN <<>>
  ELSE LET x == CHOOSE y \in S : \A z \in S : z = y \/ StrLess(y, z)
       IN <<x>> \o SetToSeq(S \ {x})

\* The sequence without its element at index i.
RemoveAt(sq, i) == SubSeq(sq, 1, i - 1) \o SubSeq(sq, i + 1, Len(sq))

\* The permutation of sq that the number ord selects.
RECURSIVE Permute(_, _)
Permute(sq, ord) ==
  IF sq = <<>> THEN <<>>
  ELSE LET i == (ord % Len(sq)) + 1
       IN <<sq[i]>> \o Permute(RemoveAt(sq, i), ord \div Len(sq))

\* reflect.Value.MapKeys: the keys in an unspecified order, here the order
\* that ord selects.
MapKeys(m, ord) == Permute(SetToSeq(DOMAIN m), ord)

\* Insertion of key x into a sorted key sequence.
RECURSIVE InsertSorted(_, _)
InsertSorted(sq, x) ==
  IF sq = <<>> THEN <<x>>
  ELSE IF StrLess(x, sq[1]) THEN <<x>> \o sq
  ELSE <<sq[1]>> \o InsertSorted(Tail(sq), x)

\* sort.Slice(keys, keys[i].String() < keys[j].String())
RECURSIVE SortKeys(_)
SortKeys(keys) ==
  IF keys = <<>> THEN <<>>
  ELSE InsertSorted(SortKeys(SubSeq(keys, 1, Len(keys) - 1)), keys[Len(keys)])

\* marshalMap without the sort: the keys as the iteration met them.
marshalMapKeysUnsorted(m, ord) == MapKeys(m, ord)

\* The order in which marshalMap emits the keys of m.
marshalMapKeys(m, ord) == SortKeys(MapKeys(m, ord))

\* strings.Split(str, "\n")
RECURSIVE SplitLines(_)
SplitLines(str) ==
  LET k == NewlineIdx(str) IN
  IF k = 0 THEN <<str>>
  ELSE <<SubSeq(str, 1, k - 1)>> \o SplitLines(SubSeq(str, k + 1, Len(str)))

\* The content lines of a multi-line block, each indented and ended.
RECURSIVE writeLines(_, _, _)
writeLines(st, lines, n) ==
  IF lines = <<>> THEN st
  ELSE writeLines(write(write(write(st, Spaces(n)), lines[1]), <<"\n">>), Tail(lines), n)

mlFence == <<Backtick, Backtick, Backtick>>

\* marshalString: a quoted string, or a ``` block when it holds a newline.
marshalString(st, str, indent) ==
  IF \E i \in 1..Len(str) : str[i] = "\n"
  THEN LET all   == SplitLines(str)
           lines == IF all[Len(all)] = <<>> THEN SubSeq(all, 1, Len(all) - 1) ELSE all
           st1   == write(st, mlFence \o <<"\n">>)
           st2   == writeLines(st1, lines, indent + 2)
       IN write(write(st2, Spaces(indent)), mlFence)
  ELSE write(st, Quote(str))

isVectorKind(v) == v.t \in {"dict", "list"}


\* marshalValue: dispatch on the value's kind.
marshalValue(st, v, indent, ord) ==
  IF IsErr(st.err) THEN st
  ELSE CASE v.t = "null"   -> write(st, kwNull)
         [] v.t = "dict"   ->
              IF DOMAIN v.m = {} THEN write(st, <<"{", "}">>)
              ELSE Call("marshalMapLoop", <<st, v.m, Call("marshalMapKeys", <<v.m, ord>>), 1, indent, ord>>)
         [] v.t = "list"   ->
              IF Len(v.xs) = 0 THEN write(st, <<"[", "]">>)
              ELSE Call("marshalSliceLoop", <<st, v.xs, 1, indent, ord>>)
         [] v.t = "string" -> Call("marshalString", <<st, v.s, indent>>)
         [] v.t = "int"    -> write(st, Call("FormatInt", <<v.i>>))
         [] v.t = "float"  ->
              (CASE v.f.cls = "nan" -> write(st, kwNaN)
                 [] v.f.cls = "inf" /\ v.f.m > 0 -> write(st, kwInf)
                 [] v.f.cls = "inf" /\ v.f.m < 0 -> write(st, <<"-">> \o kwInf)
                 [] OTHER -> write(st, Call("FormatFloat", <<v.f>>)))
         [] v.t = "bool"   -> write(st, IF v.b THEN kwTrue ELSE kwFalse)

\* The loop of marshalMap over the sorted keys, from the i-th.
marshalMapLoop(st, m, keys, i, indent, ord) ==
  IF i > Len(keys) THEN st
  ELSE LET st1 == IF i > 1 THEN write(st, <<"\n">>) ELSE st
       IN Call("marshalMapLoop",
               <<Call("writeKVPair", <<st1, keys[i], m[keys[i]], indent, ord>>),
                 m, keys, i + 1, indent, ord>>)

\* The loop of marshalSlice, from the i-th element.
marshalSliceLoop(st, xs, i, indent, ord) ==
  IF i > Len(xs) THEN st
  ELSE LET st1 == IF i > 1 THEN write(st, <<"\n">>) ELSE st
           st2 == write(write(st1, Spaces(indent)), <<"-", " ">>)
           st3 == IF isVectorKind(xs[i])
                  THEN Call("marshalValue", <<write(st2, <<":", ":", "\n">>), xs[i], indent + 2, ord>>)
                  ELSE Call("marshalValue", <<st2, xs[i], indent, ord>>)
       IN Call("marshalSliceLoop", <<st3, xs, i + 1, indent, ord>>)

\* writeKVPair: indentation, key, indicator and value.
writeKVPair(st, key, val, indent, ord) ==
  LET st1 == write(write(st, Spaces(indent)), Call("quoteKeyIfNeeded", <<key>>))
      isEmpty == \/ (val.t = "dict" /\ DOMAIN val.m = {})
                 \/ (val.t = "list" /\ Len(val.xs) = 0)
      st2 == IF isVectorKind(val)
             THEN (IF isEmpty THEN write(st1, <<":", ":", " ">>)
                   ELSE write(st1, <<":", ":", "\n">>))
             ELSE write(st1, <<":", " ">>)
  IN Call("marshalValue", <<st2, val, indent + 2, ord>>)

\* Encoder.Encode: the value and a final newline.
Encode(st, v, ord) ==
  LET st1 == Call("marshalValue", <<st, v, 0, ord>>)
  IN IF IsErr(st1.err) THEN st1 ELSE write(st1, <<"\n">>)

\* The version directive Marshal writes first.
versionHeader == <<"%", "H", "U", "M", "L", " ", "v", "0", ".", "1", ".", "0", "\n">>

\* What Marshal returns once Encode has ended in the state st: buf.Bytes(),
\* or nil and the error.
Encoded(st) == [bytes |-> IF IsErr(st.err) THEN <<>> ELSE st.w, err |-> st.err]

\* Marshal: the bytes, or the error.
Marshal(v, ord) ==
  Encoded(Call("Encode", <<[newState EXCEPT !.w = versionHeader], v, ord>>))

\* ------------------------------------------------- encoder: object graphs

\* A value handed to Marshal as reflection sees it: a heap of nodes, each a
\* pointer or an interface (to: the node it holds, 0 when nil), a map (kv:
\* from its keys to nodes), a slice (xs: its elements) or an int (i). Node 0
\* is the invalid reflect.Value, which a nil value gives.
NInt(n)    == [k |-> "int",   to |-> 0,  kv |-> <<>>, xs |-> <<>>, i |-> n]
NPtr(to)   == [k |-> "ptr",   to |-> to, kv |-> <<>>, xs |-> <<>>, i |-> 0]
NIface(to) == [k |-> "iface", to |-> to, kv |-> <<>>, xs |-> <<>>, i |-> 0]
NMap(kv)   == [k |-> "map",   to |-> 0,  kv |-> kv,   xs |-> <<>>, i |-> 0]
NSlice(xs) == [k |-> "slice", to |-> 0,  kv |-> <<>>, xs |-> xs,   i |-> 0]

\* The loop limit of indirect.
IndirectLimit == 1000

\* The call depth up to which a Marshal call is followed; a call that goes
\* deeper has exhausted the goroutine's stack.
MaxStack == 12

\* A call in progress: the function, its value argument, its indent, its key
\* (writeKVPair), its loop index i and the place at it has reached.
Frame(fn, node, indent) ==
  [fn |-> fn, node |-> node, indent |-> indent, key |-> <<>>, i |-> 1, at |-> 0]

\* A Marshal call: the heap and the root value, the calls in progress (the
\* innermost last), the encoding state st, the result ret of the last
\* indirect call, and how far the call has come.
EncIdle ==
  [heap |-> <<>>, root |-> 0, stack |-> <<>>, st |-> newState, ret |-> 0, status |-> "idle"]

Top(e) == e.stack[Len(e.stack)]

\* The return of the innermost call.
Pop(e) == [e EXCEPT !.stack = SubSeq(@, 1, Len(@) - 1)]

\* A call made by the innermost call, which goes on as the frame f after it.
PushCall(e, f, callee) == [e EXCEPT !.stack = Append(SubSeq(@, 1, Len(@) - 1), f) \o <<callee>>]

\* A call that is the last statement of the innermost call.
TailCall(e, callee) == [e EXCEPT !.stack = Append(SubSeq(@, 1, Len(@) - 1), callee)]

\* reflect.Value.Kind of the value indirect returned.
kindOf(e, n) == IF n = 0 THEN "invalid" ELSE e.heap[n].k

\* One iteration of the loop of indirect: node is v, i the loop counter, from
\* 0 (the frame's i starts at 1).
stepIndirect(e) ==
  LET f == Top(e) IN
  IF f.i > IndirectLimit
  THEN [Pop(e) EXCEPT !.st.err = PlainErr("circular or excessively deep data structure"),
                      !.ret = 0]
  ELSE IF f.node = 0 THEN [Pop(e) EXCEPT !.ret = 0]
  ELSE IF e.heap[f.node].k \notin {"ptr", "iface"} THEN [Pop(e) EXCEPT !.ret = f.node]
  ELSE IF e.heap[f.node].to = 0 THEN [Pop(e) EXCEPT !.ret = 0]
  ELSE TailCall(e, [f EXCEPT !.node = e.heap[f.node].to, !.i = @ + 1])

\* marshalValue: up to its call of indirect (at 0), and from there on (at 1).
\* Its calls of marshalMap and marshalSlice are its last statements.
stepMarshalValue(e) ==
  LET f == Top(e) IN
  IF IsErr(e.st.err) THEN Pop(e)
  ELSE IF f.at = 0 THEN PushCall(e, [f EXCEPT !.at = 1], Frame("indirect", f.node, 0))
  ELSE CASE kindOf(e, e.ret) = "invalid" -> [Pop(e) EXCEPT !.st = write(@, kwNull)]
         [] kindOf(e, e.ret) = "map"     -> TailCall(e, Frame("marshalMap", e.ret, f.indent))
         [] kindOf(e, e.ret) = "slice"   -> TailCall(e, Frame("marshalSlice", e.ret, f.indent))
         [] kindOf(e, e.ret) = "int"     ->
              [Pop(e) EXCEPT !.st = write(@, Call("FormatInt", <<e.heap[e.ret].i>>))]

\* marshalMap: the empty map, or one turn of the loop over the sorted keys.
stepMarshalMap(e) ==
  LET f    == Top(e)
      kv   == e.heap[f.node].kv
      keys == Call("marshalMapKeys", <<kv, 0>>)
  IN IF DOMAIN kv = {} THEN [Pop(e) EXCEPT !.st = write(@, <<"{", "}">>)]
     ELSE IF f.i > Len(keys) THEN Pop(e)
     ELSE [PushCall(e, [f EXCEPT !.i = @ + 1],
                    [Frame("writeKVPair", kv[keys[f.i]], f.indent) EXCEPT !.key = keys[f.i]])
             EXCEPT !.st = IF f.i > 1 THEN write(@, <<"\n">>) ELSE @]

\* writeKVPair: the key, up to the call of indirect (at 0); the indicator and
\* the call of marshalValue, its last statement (at 1).
stepWriteKVPair(e) ==
  LET f == Top(e)
      isVector == kindOf(e, e.ret) \in {"map", "slice"}
      isEmpty  == \/ kindOf(e, e.ret) = "map" /\ DOMAIN e.heap[e.ret].kv = {}
                  \/ kindOf(e, e.ret) = "slice" /\ Len(e.heap[e.ret].xs) = 0
  IN IF f.at = 0
     THEN [PushCall(e, [f EXCEPT !.at = 1], Frame("indirect", f.node, 0))
             EXCEPT !.st = write(write(@, Spaces(f.indent)), Call("quoteKeyIfNeeded", <<f.key>>))]
     ELSE IF IsErr(e.st.err) THEN Pop(e)
     ELSE [TailCall(e, Frame("marshalValue", f.node, f.indent + 2))
             EXCEPT !.st = IF isVector
                           THEN (IF isEmpty THEN write(@, <<":", ":", " ">>)
                                 ELSE write(@, <<":", ":", "\n">>))
                           ELSE write(@, <<":", " ">>)]

\* marshalSlice: the empty slice, or one turn of the loop up to the call of
\* indirect (at 0), and the turn's call of marshalValue (at 1).
stepMarshalSlice(e) ==
  LET f  == Top(e)
      xs == e.heap[f.node].xs
  IN IF f.at = 0
     THEN IF Len(xs) = 0 THEN [Pop(e) EXCEPT !.st = write(@, <<"[", "]">>)]
          ELSE IF f.i > Len(xs) THEN Pop(e)
          ELSE [PushCall(e, [f EXCEPT !.at = 1], Frame("indirect", xs[f.i], 0))
                  EXCEPT !.st = write(write(IF f.i > 1 THEN write(@, <<"\n">>) ELSE @,
                                            Spaces(f.indent)), <<"-", " ">>)]
     ELSE IF IsErr(e.st.err) THEN Pop(e)
     ELSE IF kindOf(e, e.ret) \in {"map", "slice"}
     THEN [PushCall(e, [f EXCEPT !.i = @ + 1, !.at = 0], Frame("marshalValue", xs[f.i], f.indent + 2))
             EXCEPT !.st = write(@, <<":", ":", "\n">>)]
     ELSE PushCall(e, [f EXCEPT !.i = @ + 1, !.at = 0], Frame("marshalValue", xs[f.i], f.indent))

\* ------------------------------------------------------- binding a value

\* Go types of a destination: interface (any), string, int, bool, a struct
\* with exported, untagged fields, a slice, a map with string keys, a
\* pointer. Floats, unsigned integers and field tags are not modelled.
TAny == [k |-> "interface"]
TString == [k |-> "string"]
TInt == [k |-> "int"]
TBool == [k |-> "bool"]
TStruct(fields) == [k |-> "struct", fields |-> fields]
TSlice(elem) == [k |-> "slice", elem |-> elem]
TMap(elem) == [k |-> "map", elem |-> elem]
TPtr(elem) == [k |-> "ptr", elem |-> elem]
Field(name, typ) == [name |-> name, typ |-> typ]

\* Values of these types: the values of the parser, a struct with the values
\* of its fields in order, a pointer to a value; nil is VNull.
VStruct(fs) == [t |-> "struct", fs |-> fs]
VPtr(to) == [t |-> "ptr", to |-> to]

\* reflect.Zero(typ)
Zero(typ) ==
  CASE typ.k = "string" -> VString(<<>>)
    [] typ.k = "int" -> VInt(0)
    [] typ.k = "bool" -> VBool(FALSE)
    [] typ.k = "struct" -> VStruct([i \in 1..Len(typ.fields) |-> Call("Zero", <<typ.fields[i].typ>>)])
    [] OTHER -> VNull

\* s.Type().AssignableTo(dst.Type()) for a parsed value src: string, int64,
\* float64, bool, []any or map[string]any. int64 is not assignable to int.
AssignableTo(src, typ) ==
  \/ (src.t = "string" /\ typ.k = "string")
  \/ (src.t = "bool" /\ typ.k = "bool")
  \/ (src.t = "list" /\ typ = TSlice(TAny))
  \/ (src.t = "dict" /\ typ = TMap(TAny))

\* The result of a set function: what the destination holds when the call
\* returns, and the error.
Set(val, e) == [val |-> val, err |-> e]

setString(cur, src) ==
  IF src.t = "string" THEN Set(src, NoErr)
  ELSE Set(cur, PlainErr("cannot unmarshal into string"))

\* setInt for the type int, as wide as int64: OverflowInt is false. A float
\* is taken when it is a whole number; the conversion of one that is out of
\* range gives the smallest int64 (amd64).
setInt(cur, src) ==
  IF src.t = "int" THEN Set(src, NoErr)
  ELSE IF src.t = "float"
  THEN IF src.f.cls = "fin" /\ src.f.e >= 0
       THEN IF src.f.m * 10 ^ src.f.e \in -(IntModulus \div 2)..(IntModulus \div 2 - 1)
            THEN Set(VInt(src.f.m * 10 ^ src.f.e), NoErr)
            ELSE Set(VInt(-(IntModulus \div 2)), NoErr)
       ELSE Set(cur, PlainErr("cannot unmarshal float into integer type"))
  ELSE Set(cur, PlainErr("cannot unmarshal into integer"))

setBool(cur, src) ==
  IF src.t = "bool" THEN Set(src, NoErr)
  ELSE Set(cur, PlainErr("cannot unmarshal into bool"))

\* setPtr: a new pointer, stored when its value has been set.
setPtr(typ, cur, src) ==
  LET r == Call("setValueReflect", <<typ.elem, Zero(typ.elem), src>>) IN
  IF IsErr(r.err) THEN Set(cur, r.err) ELSE Set(VPtr(r.val), NoErr)

\* setSlice: a new slice, stored when every element has been set.
setSlice(typ, cur, src) ==
  IF src.t # "list" THEN Set(cur, PlainErr("cannot unmarshal into slice"))
  ELSE LET rs == [i \in 1..Len(src.xs) |->
                    Call("setValueReflect", <<typ.elem, Zero(typ.elem), src.xs[i]>>)]
       IN IF \E i \in 1..Len(rs) : IsErr(rs[i].err)
          THEN Set(cur, PlainErr("error setting slice element"))
          ELSE Set(VList([i \in 1..Len(rs) |-> rs[i].val]), NoErr)

\* setMap: a new map, stored when every value has been set.
setMap(typ, cur, src) ==
  IF src.t # "dict" THEN Set(cur, PlainErr("cannot unmarshal into map"))
  ELSE LET rs == [key \in DOMAIN src.m |->
                    Call("setValueReflect", <<typ.elem, Zero(typ.elem), src.m[key]>>)]
       IN IF \E key \in DOMAIN rs : IsErr(rs[key].err)
          THEN Set(cur, PlainErr("error setting map value"))
          ELSE Set(VDict([key \in DOMAIN rs |-> rs[key].val]), NoErr)

\* setStruct from field i on: each field that the map names is set in place,
\* in the order of the fields; the first error ends the loop.
setStruct(typ, cur, src, i) ==
  IF src.t # "dict" THEN Set(cur, PlainErr("cannot unmarshal into struct"))
  ELSE IF i > Len(typ.fields) THEN Set(cur, NoErr)
  ELSE IF typ.fields[i].name \notin DOMAIN src.m
  THEN Call("setStruct", <<typ, cur, src, i + 1>>)
  ELSE LET r == Call("setValueReflect",
                     <<typ.fields[i].typ, cur.fs[i], src.m[typ.fields[i].name]>>)
       IN IF IsErr(r.err)
          THEN Set([cur EXCEPT !.fs[i] = r.val], PlainErr("error setting field"))
          ELSE Call("setStruct", <<typ, [cur EXCEPT !.fs[i] = r.val], src, i + 1>>)

\* setValueReflect: sets the destination of type typ, which holds cur, from
\* the parsed value src.
setValueReflect(typ, cur, src) ==
  IF src.t = "null" THEN Set(Zero(typ), NoErr)
  ELSE IF typ.k = "interface" THEN Set(src, NoErr)
  ELSE IF AssignableTo(src, typ) THEN Set(src, NoErr)
  ELSE CASE typ.k = "struct" -> Call("setStruct", <<typ, cur, src, 1>>)
         [] typ.k = "slice" -> setSlice(typ, cur, src)
         [] typ.k = "map" -> setMap(typ, cur, src)
         [] typ.k = "ptr" -> setPtr(typ, cur, src)
         [] typ.k = "string" -> setString(cur, src)
         [] typ.k = "int" -> setInt(cur, src)
         [] typ.k = "bool" -> setBool(cur, src)

\* A destination argument: a valid pointer to a variable of type typ holding
\* val, or nil, a value that is not a pointer, a nil pointer.
Dest(arg, typ, val) == [arg |-> arg, typ |-> typ, val |-> val]

\* setValue(dst, src)
setValue(d, src) ==
  CASE d.arg = "nil" -> Set(d.val, PlainErr("cannot unmarshal into a nil value"))
    [] d.arg = "notPointer" -> Set(d.val, PlainErr("destination is not a pointer"))
    [] d.arg = "nilPointer" -> Set(d.val, PlainErr("destination pointer is nil"))
    [] d.arg = "pointer" -> Call("setValueReflect", <<d.typ, d.val, src>>)

\* Decoder.Decode(v) for the result r of parse.
DecodeInto(r, d) == IF IsErr(r.err) THEN Set(d.val, r.err) ELSE setValue(d, r.val)

\* Unmarshal(data, v)
UnmarshalInto(data, d) ==
  IF Len(data) = 0 THEN Set(d.val, PlainErr("empty document is undefined"))
  ELSE DecodeInto(Call("parse", <<newLexer(data)>>), d)

\* ----------------------------------------------------------- calls

\* The call of the function named fn with the argument list a. The functions
\* of the lexer, the parser and the encoder call each other through Call, so
\* that a function may call one defined below it, or itself.
Call(fn, a) ==
  CASE fn = "readLine" -> readLine(a[1])
    [] fn = "Zero" -> Zero(a[1])
    [] fn = "setStruct" -> setStruct(a[1], a[2], a[3], a[4])
    [] fn = "setValueReflect" -> setValueReflect(a[1], a[2], a[3])
    [] fn = "validateRemaining" -> validateRemaining(a[1])
    [] fn = "consumeLine" -> consumeLine(a[1])
    [] fn = "scanQuotedString" -> scanQuotedString(a[1])
    [] fn = "scanKeyOrString" -> scanKeyOrString(a[1])
    [] fn = "scanKeyOrKeyword" -> scanKeyOrKeyword(a[1])
    [] fn = "scanBaseNumber" -> scanBaseNumber(a[1], a[2], a[3], a[4])
    [] fn = "scanNumber" -> scanNumber(a[1])
    [] fn = "scanVersion" -> scanVersion(a[1])
    [] fn = "scanToken" -> scanToken(a[1])
    [] fn = "scanFill" -> scanFill(a[1])
    [] fn = "scanSkip" -> scanSkip(a[1])
    [] fn = "scan" -> scan(a[1])
    [] fn = "next" -> next(a[1])
    [] fn = "peek" -> peek(a[1])
    [] fn = "scanMultilineLoop" -> scanMultilineLoop(a[1], a[2], a[3], a[4], a[5])
    [] fn = "scanMultilineString" -> scanMultilineString(a[1], a[2])
    [] fn = "parseIntDigits" -> parseIntDigits(a[1], a[2], a[3], a[4])
    [] fn = "parseIntValue" -> parseIntValue(a[1])
    [] fn = "ParseFloat" -> ParseFloat(a[1])
    [] fn = "parseFloatValue" -> parseFloatValue(a[1])
    [] fn = "tokenToValue" -> tokenToValue(a[1])
    [] fn = "inferRootType" -> inferRootType(a[1])
    [] fn = "assertRootEnd" -> assertRootEnd(a[1], a[2])
    [] fn = "parseInlineValue" -> parseInlineValue(a[1])
    [] fn = "ScalarAndLine" -> ScalarAndLine(a[1], a[2])
    [] fn = "parseScalarValue" -> parseScalarValue(a[1], a[2])
    [] fn = "parseListItemValue" -> parseListItemValue(a[1], a[2])
    [] fn = "parseRootScalar" -> parseRootScalar(a[1])
    [] fn = "parseInlineListLoop" -> parseInlineListLoop(a[1], a[2], a[3])
    [] fn = "parseInlineList" -> parseInlineList(a[1])
    [] fn = "parseInlineDictLoop" -> parseInlineDictLoop(a[1], a[2], a[3])
    [] fn = "parseInlineDict" -> parseInlineDict(a[1])
    [] fn = "parseInlineVectorValue" -> parseInlineVectorValue(a[1])
    [] fn = "parseMultilineDictLoop" -> parseMultilineDictLoop(a[1], a[2], a[3])
    [] fn = "parseMultilineListLoop" -> parseMultilineListLoop(a[1], a[2], a[3])
    [] fn = "parseVector" -> parseVector(a[1], a[2])
    [] fn = "parseMultilineDict" -> parseMultilineDict(a[1], a[2])
    [] fn = "parseMultilineList" -> parseMultilineList(a[1], a[2])
    [] fn = "RootLine" -> RootLine(a[1])
    [] fn = "parse" -> parse(a[1])
    [] fn = "FormatInt" -> FormatInt(a[1])
    [] fn = "FormatFloat" -> FormatFloat(a[1])
    [] fn = "quoteKeyIfNeeded" -> quoteKeyIfNeeded(a[1])
    [] fn = "marshalMapKeys" -> marshalMapKeys(a[1], a[2])
    [] fn = "marshalString" -> marshalString(a[1], a[2], a[3])
    [] fn = "marshalValue" -> marshalValue(a[1], a[2], a[3], a[4])
    [] fn = "marshalMapLoop" -> marshalMapLoop(a[1], a[2], a[3], a[4], a[5], a[6])
    [] fn = "marshalSliceLoop" -> marshalSliceLoop(a[1], a[2], a[3], a[4], a[5])
    [] fn = "writeKVPair" -> writeKVPair(a[1], a[2], a[3], a[4], a[5])
    [] fn = "Encode" -> Encode(a[1], a[2], a[3])

\* ---------------------------------------------------------- the program

\* data: the document handed to Unmarshal; v, err: what Unmarshal returned;
\* out, encErr: what Marshal returned for v; out2: what a second Marshal
\* call returned for v; v2, err2: what Unmarshal returned for out; ord1, ord2:
\* the orders in which the runtime iterated the maps in the two Marshal calls.
\* dec: the lexer of the parser of a Decoder made by NewDecoder for data;
\* calls: what the Decode calls made on that Decoder so far returned.
\* enc: a Marshal call on a value given as an object graph, step by step.
\* scn: a lexer made for data, the scan calls made on it one by one: the
\* lexer before the last call (before) and after it (lx), and the tokens the
\* calls returned.
VARIABLES data, pc, v, err, ord1, out, encErr, ord2, out2, v2, err2, dec, calls, enc, scn, dst, pool

vars == <<data, pc, v, err, ord1, out, encErr, ord2, out2, v2, err2, dec, calls, enc, scn, dst, pool>>

\* The number of Decode calls made on one Decoder.
MaxDecodes == 3

\* The number of scan calls made on one lexer.
MaxScans == 6

\* The map iteration orders a Marshal call may meet.
MaxOrd == 2

Orders == 0..(MaxOrd - 1)

\* The largest indentation of a line of the block documents.
MaxIndent == 4

Indents == 0..MaxIndent

\* The lexer that is driven call by call: the lexer before the last call
\* and after it, the tokens returned so far and the calls that returned them.
ScnStart == [before |-> newLexer(data), lx |-> newLexer(data), toks |-> <<>>, ops |-> <<>>]

\* The concurrent Encode calls: the state objects that exist (their writer,
\* 0 for nil, and their error), the objects that lie in statePool, each
\* call's position, and what has been written to each call's writer. Idle in
\* the runs of one call.
PoolIdle == [objs |-> <<>>, free |-> {}, call |-> <<>>, wr |-> <<>>]

\* The destination of the typed calls: the argument, its type, what the
\* variable holds, what it held before the last call, that call's error, and
\* the number of calls made. Idle in the runs that decode into an any.
DstIdle == [arg |-> "pointer", typ |-> TAny, val |-> VNull, before |-> VNull, err |-> NoErr, n |-> 0]

\* The state before any call, for a document of the set D.
InitWith(D) ==
  /\ data \in D
  /\ pc = "start"
  /\ v = VNull
  /\ err = NoErr
  /\ ord1 = 0
  /\ ord2 = 0
  /\ out = <<>>
  /\ encErr = NoErr
  /\ out2 = <<>>
  /\ v2 = VNull
  /\ err2 = NoErr
  /\ dec = newLexer(data)
  /\ calls = <<>>
  /\ enc = EncIdle
  /\ scn = ScnStart
  /\ dst = DstIdle
  /\ pool = PoolIdle

\* Unmarshal(data, &v), in a run that makes no Decode call on the Decoder.
DoUnmarshal ==
  /\ pc = "start"
  /\ calls = <<>>
  /\ scn.toks = <<>>
  /\ \E r \in {Unmarshal(data)} : v' = r.val /\ err' = r.err
  /\ pc' = "decoded"
  /\ UNCHANGED <<data, ord1, out, encErr, ord2, out2, v2, err2, dec, calls, enc, scn, dst, pool>>

\* out, encErr = Marshal(v), the maps of v iterated in some order.
DoMarshal ==
  /\ pc = "decoded"
  /\ ~IsErr(err)
  /\ \E ord \in Orders :
       \E r \in {Marshal(v, ord)} : ord1' = ord /\ out' = r.bytes /\ encErr' = r.err
  /\ pc' = "encoded"
  /\ UNCHANGED <<data, v, err, ord2, out2, v2, err2, dec, calls, enc, scn, dst, pool>>

\* out2 = a second Marshal(v), the maps iterated in some order again.
DoMarshalAgain ==
  /\ pc = "encoded"
  /\ \E ord \in Orders : ord2' = ord /\ out2' = Marshal(v, ord).bytes
  /\ pc' = "encoded2"
  /\ UNCHANGED <<data, v, err, ord1, out, encErr, v2, err2, dec, calls, enc, scn, dst, pool>>

\* Unmarshal(out, &v2)
DoUnmarshalEncoded ==
  /\ pc = "encoded2"
  /\ ~IsErr(encErr)
  /\ \E r \in {Unmarshal(out)} : v2' = r.val /\ err2' = r.err
  /\ pc' = "redecoded"
  /\ UNCHANGED <<data, v, err, ord1, out, encErr, ord2, out2, dec, calls, enc, scn, dst, pool>>

\* dec.Decode(&x) on the Decoder made for data: one more call on the same
\* Decoder, whose lexer keeps what it has read and peeked so far.
DoDecode ==
  /\ pc = "start"
  /\ scn.toks = <<>>
  /\ Len(calls) < MaxDecodes
  /\ \E r \in {Call("parse", <<dec>>)} : dec' = r.lx /\ calls' = Append(calls, Decode(r))
  /\ UNCHANGED <<data, pc, v, err, ord1, out, encErr, ord2, out2, v2, err2, enc, scn, dst, pool>>

\* One more l.scan() on a lexer made for data, in a run that makes no other
\* call; no call follows the end of the input or an error.
DoScan ==
  /\ pc = "start"
  /\ calls = <<>>
  /\ Len(scn.toks) < MaxScans
  /\ IF scn.toks = <<>> THEN TRUE ELSE scn.toks[Len(scn.toks)].Type \notin {"EOF", "Error"}
  /\ \E r \in {Call("scan", <<scn.lx>>)} :
       scn' = [before |-> scn.lx, lx |-> r.lx, toks |-> Append(scn.toks, r.tok),
               ops |-> Append(scn.ops, "scan")]
  /\ UNCHANGED <<data, pc, v, err, ord1, out, encErr, ord2, out2, v2, err2, dec, calls, enc, dst, pool>>

Next ==
  \/ DoDecode
  \/ DoUnmarshal
  \/ DoMarshal
  \/ DoMarshalAgain
  \/ DoUnmarshalEncoded

\* Line i and line j of a document, one below the other.
Below(a, b) == (a \o <<"\n">>) \o b

\* A line: its indentation and its content.
Ln(n, content) == Spaces(n) \o content

\* ------------------------------------------- documents of the round trip

RTScalars ==
  {<<"1">>, <<"-", "7">>, <<"0", "x", "1", "F">>, <<"1", ".", "5">>, <<"1", "5", "0", ".", "0">>, <<"1", "e", "6">>, <<"-", "0", ".", "2", "5">>, <<"\"", "s", "\"">>, <<"\"", "a", "\\", "n", "b", "\"">>, <<"\"", "\"">>,
   <<"t", "r", "u", "e">>, <<"n", "u", "l", "l">>, <<"n", "a", "n">>, <<"-", "i", "n", "f">>, <<"\"", "q", "\\", "\"", "t", "\"">>}

RTKeys == {<<"a">>, <<"b">>, <<"B">>, <<"\"", "a", " ", "b", "\"">>, <<"a", "-", "1">>}

RTBodies ==
  {<<":", " ">> \o s : s \in RTScalars} \cup
  {<<":", ":", " ", "[", "]">>, <<":", ":", " ", "{", "}">>, <<":", ":", " ", "1", ",", " ", "2">>, <<":", ":", "\n", " ", " ", "y", ":", " ", "1", "\n", " ", " ", "x", ":", " ", "\"", "u", "\\", "n", "v", "\"">>,
   <<":", ":", "\n", " ", " ", "-", " ", "1", "\n", " ", " ", "-", " ", ":", ":", "\n", " ", " ", " ", " ", "d", ":", " ", "1", "\n", " ", " ", " ", " ", "c", ":", " ", "2">>, <<":", " ", "\"", "\"", "\"", "\n", " ", " ", "t", "\n", "\"", "\"", "\"">>}

RTEntry1 == {k \o b : k \in {<<"a">>, <<"a", "-", "1">>, <<"\"", "a", " ", "b", "\"">>}, b \in RTBodies}

RTEntry2 == {k \o b : k \in {<<"a">>, <<"B">>, <<"\"", "a", " ", "b", "\"">>}, b \in {<<":", " ", "2">>, <<":", ":", "\n", " ", " ", "z", ":", " ", "1", "\n", " ", " ", "w", ":", " ", "2">>}}

RTEntry3 == {k \o <<":", " ", "3">> : k \in {<<"b">>, <<"A">>}}

RTItems ==
  {<<"-", " ">> \o s : s \in RTScalars} \cup
  {<<"-", " ", ":", ":", " ", "[", "]">>, <<"-", " ", ":", ":", " ", "{", "}">>, <<"-", " ", ":", ":", " ", "1", ",", " ", "2">>, <<"-", " ", ":", ":", "\n", " ", " ", "b", ":", " ", "1", "\n", " ", " ", "a", ":", " ", "2">>, <<"-", " ", ":", ":", "\n", " ", " ", "-", " ", "1">>}

RoundTripDocs ==
  RTScalars \cup {<<"[", "]">>, <<"{", "}">>, <<"1", ",", " ", "2">>, <<"b", ":", " ", "1", ",", " ", "a", ":", " ", "2">>} \cup
  RTEntry1 \cup
  {Below(e1, e2) : e1 \in RTEntry1, e2 \in RTEntry2} \cup
  {Below(Below(e1, e2), e3) :
     e1 \in {k \o b : k \in {<<"a">>, <<"\"", "a", " ", "b", "\"">>}, b \in {<<":", " ", "1">>, <<":", " ", "\"", "a", "\\", "n", "b", "\"">>, <<":", ":", " ", "[", "]">>}},
     e2 \in RTEntry2, e3 \in RTEntry3} \cup
  RTItems \cup
  {Below(i1, i2) : i1 \in RTItems, i2 \in {<<"-", " ", "2">>, <<"-", " ", ":", ":", "\n", " ", " ", "k", ":", " ", "1">>}}

Init == InitWith(RoundTripDocs)

Spec == Init /\ [][Next]_vars

\* ----------------------------------------------------------- round trip

\* A value with every integer read as the float of the same number.
RECURSIVE Normalized(_)
Normalized(val) ==
  CASE val.t = "int"  -> VFloat(FNorm(val.i, 0))
    [] val.t = "list" -> VList([i \in 1..Len(val.xs) |-> Normalized(val.xs[i])])
    [] val.t = "dict" -> VDict([k \in DOMAIN val.m |-> Normalized(val.m[k])])
    [] OTHER -> val

\* C1: for every value v that Unmarshal produced, Marshal(v) succeeds,
\* Unmarshal of the bytes Marshal returned succeeds, and the value decoded
\* from them equals v up to integer/float normalisation.
C1_RoundTrip ==
  /\ (pc \in {"encoded", "encoded2", "redecoded"} => ~IsErr(encErr))
  /\ (pc = "redecoded" => ~IsErr(err2) /\ Normalized(v2) = Normalized(v))

\* ------------------------------------------------------ sorted map keys

\* The content of a line of text, without its indentation.
IndentOf(line) == CountSpacesFrom(line, 0)

ContentOf(line) == SubSeq(line, IndentOf(line) + 1, Len(line))

\* The index after the key a line of Marshal's output starts with: after the
\* closing quote of a quoted key, after the last character of a bare one.
RECURSIVE BareEnd(_, _)
BareEnd(c, i) ==
  IF i <= Len(c) /\ (isAlphaNum(c[i]) \/ c[i] = "_" \/ c[i] = "-")
  THEN BareEnd(c, i + 1) ELSE i

RECURSIVE QuoteEnd(_, _)
QuoteEnd(c, i) ==
  IF i > Len(c) THEN i
  ELSE IF c[i] = "\"" THEN i + 1
  ELSE QuoteEnd(c, i + 1)

KeyEnd(c) ==
  IF c = <<>> THEN 1
  ELSE IF c[1] = "\"" THEN QuoteEnd(c, 2)
  ELSE BareEnd(c, 1)

\* Is the line a dict entry (a key and a colon), and which key.
IsKeyLine(line) ==
  LET c == ContentOf(line) IN
  /\ KeyEnd(c) > 1
  /\ KeyEnd(c) <= Len(c)
  /\ c[KeyEnd(c)] = ":"
  /\ ~(Len(c) >= 2 /\ c[1] = "-" /\ c[2] = " ")

KeyOfLine(line) ==
  LET c == ContentOf(line) IN
  IF c[1] = "\"" THEN SubSeq(c, 2, KeyEnd(c) - 2) ELSE SubSeq(c, 1, KeyEnd(c) - 1)

\* Lines i < j are entries of one dict: equally indented, and no line
\* between them is indented less.
SameDict(lines, i, j) ==
  /\ IsKeyLine(lines[i]) /\ IsKeyLine(lines[j])
  /\ IndentOf(lines[i]) = IndentOf(lines[j])
  /\ \A k \in (i + 1)..(j - 1) : IndentOf(lines[k]) >= IndentOf(lines[i])

\* In the text, the entries of every dict stand in ascending byte-wise
\* order of their keys.
KeysAscending(text) ==
  LET lines == SplitLines(text) IN
  \A i \in 1..Len(lines) : \A j \in (i + 1)..Len(lines) :
    SameDict(lines, i, j) => StrLess(KeyOfLine(lines[i]), KeyOfLine(lines[j]))

\* C2: Marshal emits the entries of every map, at every nesting level, in
\* ascending byte-wise order of their keys, and two Marshal calls on the
\* same value return the same bytes whatever the map iteration orders were.
C2_SortedKeys ==
  /\ (pc \in {"encoded", "encoded2", "redecoded"} => KeysAscending(out))
  /\ (pc \in {"encoded2", "redecoded"} => out2 = out)

\* A map of three entries and a nested map were iterated in two different
\* orders by two Marshal calls.
C2_Witness ==
  /\ pc = "encoded2"
  /\ ord1 # ord2
  /\ v.t = "dict"
  /\ Cardinality(DOMAIN v.m) = 3
  /\ MapKeys(v.m, ord1) # MapKeys(v.m, ord2)
  /\ \E k \in DOMAIN v.m :
       /\ v.m[k].t = "dict"
       /\ MapKeys(v.m[k].m, ord1) # MapKeys(v.m[k].m, ord2)
  /\ out2 = out

\* -------------------------------------------------------- duplicate keys

\* The keys of the documents, as written, and the key text each stands for.
DupKeys == {<<"a">>, <<"\"", "a", "\"">>, <<"b">>, <<"\"", "a", " ", "b", "\"">>}

KeyName(k) == IF k[1] = "\"" THEN SubSeq(k, 2, Len(k) - 1) ELSE k

DupKeySeqs == [1..2 -> DupKeys] \cup [1..3 -> DupKeys]

DupForms == {"root lines", "nested lines", "item lines", "vector last",
             "root inline", "nested inline"}

\* The digit that is the value of the i-th entry.
DigitChar(i) == NatDigits(i)

\* The entries of ks one per line, each indented by n.
RECURSIVE EntryLines(_, _, _)
EntryLines(ks, i, n) ==
  LET e == Ln(n, (ks[i] \o <<":", " ">>) \o DigitChar(i)) IN
  IF i = Len(ks) THEN e ELSE Below(e, EntryLines(ks, i + 1, n))

\* The entries of ks on one line, separated by commas.
RECURSIVE EntryList(_, _)
EntryList(ks, i) ==
  LET e == (ks[i] \o <<":", " ">>) \o DigitChar(i) IN
  IF i = Len(ks) THEN e ELSE (e \o <<",", " ">>) \o EntryList(ks, i + 1)

\* The document that writes a dict with the keys ks, in one of the forms.
DupDoc(ks, form) ==
  CASE form = "root lines"    -> EntryLines(ks, 1, 0)
    [] form = "nested lines"  -> Below(<<"k", ":", ":">>, EntryLines(ks, 1, 2))
    [] form = "item lines"    -> Below(<<"-", " ", ":", ":">>, EntryLines(ks, 1, 2))
    [] form = "vector last"   ->
         Below(EntryLines(SubSeq(ks, 1, Len(ks) - 1), 1, 0), ks[Len(ks)] \o <<":", ":", " ", "[", "]">>)
    [] form = "root inline"   -> EntryList(ks, 1)
    [] form = "nested inline" -> <<"k", ":", ":", " ">> \o EntryList(ks, 1)

DupDocs == {DupDoc(ks, form) : ks \in DupKeySeqs, form \in DupForms}

\* Every document of the family with the keys and the form it was made of.
DupTable == {<<DupDoc(ks, form), ks, form>> : ks \in DupKeySeqs, form \in DupForms}

InitDup == InitWith(DupDocs)

SpecDup == InitDup /\ [][Next]_vars

\* Two of the keys stand for the same key text.
HasRepeat(ks) ==
  \E i \in 1..Len(ks) : \E j \in (i + 1)..Len(ks) : KeyName(ks[i]) = KeyName(ks[j])

\* The dict that the entries of ks make: the i-th key with the value i, the
\* last one with the empty list in the form "vector last".
DictOf(ks, form) ==
  [name \in {KeyName(ks[i]) : i \in 1..Len(ks)} |->
     LET i == CHOOSE j \in 1..Len(ks) : KeyName(ks[j]) = name IN
     IF form = "vector last" /\ i = Len(ks) THEN VList(<<>>) ELSE VInt(i)]

\* The value a document of the family decodes to.
DupValue(ks, form) ==
  CASE form \in {"nested lines", "nested inline"} ->
         VDict([name \in {<<"k">>} |-> VDict(DictOf(ks, form))])
    [] form = "item lines" -> VList(<<VDict(DictOf(ks, form))>>)
    [] OTHER -> VDict(DictOf(ks, form))

\* C3: Unmarshal fails whenever the same key text, bare or quoted, occurs
\* twice within one dict, in multi-line and in inline form alike; a document
\* whose keys all differ decodes to a dict with one entry per key written,
\* each with the value written for it.
C3_DuplicateKeys ==
  pc # "start" =>
    \A d \in DupTable :
      data = d[1] =>
        IF HasRepeat(d[2]) THEN IsErr(err)
        ELSE ~IsErr(err) /\ v = DupValue(d[2], d[3])

\* An inline dict that writes a key bare and then quoted was rejected as a
\* duplicate.
C3_Witness ==
  /\ pc = "decoded"
  /\ data = <<"k", ":", ":", " ", "a", ":", " ", "1", ",", " ", "b", ":", " ", "2", ",", " ", "\"", "a", "\"", ":", " ", "3">>
  /\ err = LineErr(1, "duplicate key in dict")

\* ------------------------------------------------ one key and one scalar

LineKeys == {<<"k">>, <<"\"", "a", " ", "b", "\"">>}

LineSeps == {<<":">>, <<":", " ">>, <<":", " ", " ">>, <<" ", ":", " ">>, <<" ", ":">>}

Keywords == {<<"t", "r", "u", "e">>, <<"f", "a", "l", "s", "e">>, <<"n", "u", "l", "l">>, <<"n", "a", "n">>, <<"i", "n", "f">>}

ScalarLits == Keywords \cup {<<"1">>, <<"-", "2">>, <<"0", "x", "1", "F">>, <<"1", ".", "5">>, <<"\"", "s", "\"">>, <<"+", "i", "n", "f">>, <<"-", "i", "n", "f">>}

\* Runs of letters, digits, '-' and '_' that are no keyword.
BareWords == {<<"y", "e", "s">>, <<"t", "r", "u">>, <<"T", "r", "u", "e">>, <<"n", "u", "l">>, <<"a", "1">>, <<"n", "-", "a">>, <<"x", "_", "y">>, <<"N", "a", "N">>, <<"1", "a">>, <<"_", "x">>}

Tails == {<<>>, <<" ", "#", " ", "c">>, <<"#", " ", "c">>, <<" ", "#", "c">>, <<" ", "#">>, <<"#">>, <<"#", "c">>, <<" ", " ", "#", " ", "c">>}

\* The places of a value: after a key, in a list item, at the root, as the
\* last item of an inline list.
ValuePlaces == {<<"k", ":", " ">>, <<"-", " ">>, <<>>, <<"k", ":", ":", " ", "1", ",", " ">>, <<"-", " ", "1", "\n", "-", " ">>}

KVDoc(k, sep, val) == (k \o sep) \o val

ScalarLineDocs ==
  {KVDoc(k, sep, val) \o t :
     k \in LineKeys, sep \in LineSeps, val \in ScalarLits \cup {<<"y", "e", "s">>}, t \in Tails} \cup
  {(p \o w) \o t : p \in ValuePlaces, w \in BareWords \cup Keywords, t \in {<<>>, <<" ", "#", " ", "c">>}} \cup
  {Below(c, <<"k", ":", " ", "1">>) : c \in {<<"#", "c">>, <<"#", " ", "c">>, <<"#">>, <<" ", "#", " ", "c">>, <<" ", "#", "c">>}} \cup
  {Below(<<"k", ":", ":">> \o t, <<" ", " ", "a", ":", " ", "1">>) : t \in Tails}

InitLine == InitWith(ScalarLineDocs)

SpecLine == InitLine /\ [][Next]_vars

\* C4: for a key k and a single-line scalar literal val, Unmarshal accepts
\* "k: val" and rejects "k:val", "k:  val" and "k : val".
C4_StrictSpacing ==
  pc # "start" =>
    \A k \in LineKeys : \A val \in ScalarLits :
      /\ data = KVDoc(k, <<":", " ">>, val) => ~IsErr(err)
      /\ data \in {KVDoc(k, <<":">>, val), KVDoc(k, <<":", " ", " ">>, val), KVDoc(k, <<" ", ":", " ">>, val)}
           => IsErr(err)

\* C8: a comment after a value or after "::" needs a space before its '#'
\* and a space or the end of the line after it: "k: val# c", "k: val #c",
\* "k::# c", "k:: #c" and the comment-only line "#c" are rejected, and
\* "k: val # c" is accepted.
C8_Comments ==
  pc # "start" =>
    /\ \A k \in LineKeys : \A val \in ScalarLits :
         /\ data = KVDoc(k, <<":", " ">>, val) \o <<" ", "#", " ", "c">> => ~IsErr(err)
         /\ data = KVDoc(k, <<":", " ">>, val) \o <<"#", " ", "c">> => IsErr(err)
         /\ data = KVDoc(k, <<":", " ">>, val) \o <<" ", "#", "c">> => IsErr(err)
    /\ data = Below(<<"k", ":", ":", "#", " ", "c">>, <<" ", " ", "a", ":", " ", "1">>) => IsErr(err)
    /\ data = Below(<<"k", ":", ":", " ", "#", "c">>, <<" ", " ", "a", ":", " ", "1">>) => IsErr(err)
    /\ data = Below(<<"#", "c">>, <<"k", ":", " ", "1">>) => IsErr(err)

\* The string values inside a value.
RECURSIVE StringsOf(_)
StringsOf(val) ==
  CASE val.t = "string" -> {val.s}
    [] val.t = "list" -> UNION {StringsOf(val.xs[i]) : i \in 1..Len(val.xs)}
    [] val.t = "dict" -> UNION {StringsOf(val.m[k]) : k \in DOMAIN val.m}
    [] OTHER -> {}

\* Does the text hold the string between double quotes.
HoldsQuoted(text, str) ==
  LET q == (<<"\"">> \o str) \o <<"\"">> IN
  \E i \in 1..(Len(text) - Len(q) + 1) : SubSeq(text, i, i + Len(q) - 1) = q

\* C9: a bare word in value position makes Unmarshal fail unless it is one
\* of true, false, null, nan, inf, which decode to a bool, null or a float;
\* every string of a returned value stands between quotes in the document.
C9_BareWords ==
  pc # "start" =>
    /\ \A p \in ValuePlaces : \A w \in BareWords : \A t \in {<<>>, <<" ", "#", " ", "c">>} :
         data = (p \o w) \o t => IsErr(err)
    /\ \A w \in Keywords :
         data = <<"k", ":", " ">> \o w =>
           /\ ~IsErr(err)
           /\ v.m[<<"k">>] \in {VBool(TRUE), VBool(FALSE), VNull, VFloat(FNaN), VFloat(FInf(1))}
    /\ ~IsErr(err) => \A str \in StringsOf(v) : HoldsQuoted(data, str)

\* A bare word after a key was rejected as an unquoted string.
C9_Witness ==
  /\ pc = "decoded"
  /\ data = <<"k", ":", " ", "y", "e", "s">>
  /\ err = LineErr(1, "unquoted string is not allowed")

\* ------------------------------------------------------ inline collections

InlineItems == {<<"1">>, <<"\"", "s", "\"">>, <<"t", "r", "u", "e">>, <<"1", ".", "5">>, <<"n", "a", "n">>, <<"-", "2">>}

Commas == {<<",", " ">>, <<",">>, <<" ", ",", " ">>, <<",", " ", " ">>, <<" ", ",">>}

InlineDocs ==
  {p \o d : p \in {<<"k", ":", ":", " ">>, <<>>},
     d \in {(a \o c) \o b : a \in InlineItems, c \in Commas, b \in InlineItems} \cup
           {(((a \o c1) \o b) \o c2) \o <<"3">> :
              a \in InlineItems, c1 \in Commas, b \in {<<"2">>, <<"\"", "t", "\"">>}, c2 \in Commas} \cup
           {(((<<"x", ":", " ">> \o a) \o c) \o <<"y", ":", " ">>) \o b :
              a \in InlineItems, c \in Commas, b \in InlineItems}}

InitInline == InitWith(InlineDocs)

SpecInline == InitInline /\ [][Next]_vars

\* A comma of the text has a space before it.
SpaceBeforeComma(text) ==
  \E i \in 2..Len(text) : text[i] = "," /\ text[i - 1] = " "

\* A comma of the text is followed by no space or by more than one.
BadAfterComma(text) ==
  \E i \in 1..Len(text) :
    /\ text[i] = ","
    /\ \/ i = Len(text)
       \/ text[i + 1] # " "
       \/ (i + 2 <= Len(text) /\ text[i + 2] = " ")

\* C7: in an inline list or dict Unmarshal fails if a space precedes a comma,
\* whatever value stands before it, and if a comma is followed by no space
\* or by more than one.
C7_Commas ==
  pc # "start" =>
    /\ SpaceBeforeComma(data) => IsErr(err)
    /\ BadAfterComma(data) => IsErr(err)

\* ------------------------------------------------------- trailing spaces

\* The lines joined into a document, line sp (if any) with a space added.
RECURSIVE JoinLines(_, _, _)
JoinLines(ls, i, sp) ==
  LET ln == IF i = sp THEN ls[i] \o <<" ">> ELSE ls[i] IN
  IF i = Len(ls) THEN ln ELSE Below(ln, JoinLines(ls, i + 1, sp))

TrailLines1 == {<<"k", ":", " ", "1">>, <<"k", ":", ":">>, <<"-", " ", "1">>, <<"#", " ", "c">>, <<"-", " ", ":", ":">>}

TrailLines2 == {<<" ", " ", "a", ":", " ", "1">>, <<"j", ":", " ", "2">>, <<"#", " ", "c">>, <<>>, <<"-", " ", "2">>, <<"2">>, <<" ", " ", "-", " ", "1">>}

TrailLines3 == {<<>>, <<"b", ":", " ", "3">>, <<"#", " ", "c">>, <<"-", " ", "3">>}

TrailingDocs ==
  {JoinLines(<<l1, l2>>, 1, sp) : l1 \in TrailLines1, l2 \in TrailLines2, sp \in 0..2} \cup
  {JoinLines(<<l1, l2, l3>>, 1, sp) :
     l1 \in TrailLines1, l2 \in TrailLines2, l3 \in TrailLines3, sp \in 0..3} \cup
  {JoinLines(<<<<"k", ":", " ", "\"", "\"", "\"">>, <<" ", " ", "a">>, <<"\"", "\"", "\"">>, <<"j", ":", " ", "1">>>>, 1, sp) : sp \in 0..4} \cup
  {JoinLines(<<<<"-", " ", "\"", "\"", "\"">>, <<" ", " ", "a">>, <<"\"", "\"", "\"">>, <<"-", " ", "1">>>>, 1, sp) : sp \in 0..4}

InitTrailing == InitWith(TrailingDocs)

SpecTrailing == InitTrailing /\ [][Next]_vars

\* A line without the spaces at its end.
RECURSIVE TrimRight(_)
TrimRight(line) ==
  IF line # <<>> /\ line[Len(line)] = " " THEN TrimRight(SubSeq(line, 1, Len(line) - 1))
  ELSE line

\* Does the line end with the delimiter of a multi-line string.
EndsWithDelimiter(line) ==
  LET c == TrimRight(line) IN Len(c) >= 3 /\ SubSeq(c, Len(c) - 2, Len(c)) = mlQuote

\* From line i on, does a line outside a multi-line string block end in a
\* space; the lines of a block run to its closing delimiter, included.
RECURSIVE TrailingOutside(_, _, _)
TrailingOutside(ls, i, inBlock) ==
  IF i > Len(ls) THEN FALSE
  ELSE IF inBlock
  THEN TrailingOutside(ls, i + 1, ContentOf(TrimRight(ls[i])) # mlQuote)
  ELSE \/ (ls[i] # <<>> /\ ls[i][Len(ls[i])] = " ")
       \/ TrailingOutside(ls, i + 1, EndsWithDelimiter(ls[i]))

\* C5: Unmarshal fails for every document with a line that ends in a space
\* outside a multi-line string block, comment lines and lines of spaces
\* included, wherever in the document the line stands.
C5_TrailingSpaces ==
  pc # "start" => (TrailingOutside(SplitLines(data), 1, FALSE) => IsErr(err))

\* ------------------------------------------------------------ indentation

BlockLines1 == {<<"k", ":", ":">>, <<"k", ":", ":", " ", "#", " ", "c">>, <<"a", ":", " ", "1">>, <<"-", " ", "1">>, <<"-", " ", ":", ":">>, <<"e", ":", ":", " ", "[", "]">>, <<"f", ":", ":", " ", "{", "}">>}

BlockLines2 ==
  {Ln(n, c) : n \in Indents, c \in {<<"j", ":", ":">>, <<"b", ":", " ", "2">>, <<"-", " ", "2">>, <<"-", " ", ":", ":">>, <<"#", " ", "c">>}} \cup {<<>>}

BlockLines3 == {Ln(n, c) : n \in Indents, c \in {<<"c", ":", " ", "3">>, <<"-", " ", "3">>, <<"l", ":", ":">>}}

BlockLines4 == {Ln(n, <<"d", ":", " ", "4">>) : n \in Indents}

BlockDocs ==
  BlockLines1 \cup {l1 \o <<"\n">> : l1 \in BlockLines1} \cup
  {Below(l1, l2) : l1 \in BlockLines1, l2 \in BlockLines2} \cup
  {Below(Below(l1, l2), l3) :
     l1 \in BlockLines1, l2 \in BlockLines2, l3 \in BlockLines3} \cup
  {Below(Below(Below(l1, l2), l3), l4) :
     l1 \in {<<"k", ":", ":">>, <<"-", " ", ":", ":">>}, l2 \in BlockLines2, l3 \in BlockLines3, l4 \in BlockLines4}

InitBlocks == InitWith(BlockDocs)

SpecBlocks == InitBlocks /\ [][Next]_vars

\* A line without its indentation, its comment and the spaces before it.
RECURSIVE CutComment(_, _)
CutComment(c, i) ==
  IF i > Len(c) THEN c
  ELSE IF c[i] = "#" THEN SubSeq(c, 1, i - 1)
  ELSE CutComment(c, i + 1)

CodeOf(line) == TrimRight(CutComment(ContentOf(line), 1))

\* The lines that are neither blank nor a comment.
ContentLines(text) == SelectSeq(SplitLines(text), LAMBDA ln : CodeOf(ln) # <<>>)

\* Does the line end with "::", so that a block follows on the next lines.
OpensBlock(line) ==
  LET c == CodeOf(line) IN Len(c) >= 2 /\ c[Len(c)] = ":" /\ c[Len(c) - 1] = ":"

\* Is the line a list item or a dict entry.
KindOf(line) == IF CodeOf(line)[1] = "-" THEN "list" ELSE "dict"

\* The stack of open blocks without those indented more than n.
RECURSIVE Dedent(_, _)
Dedent(stack, n) ==
  IF Len(stack) > 1 /\ stack[Len(stack)].indent > n
  THEN Dedent(SubSeq(stack, 1, Len(stack) - 1), n)
  ELSE stack

\* The layout of the content lines from the i-th on, given the open blocks
\* (indentation and kind, innermost last) and whether the line before ended
\* with "::".  "ok": every block is entered at the indentation of its "::"
\* line plus 2, left by a dedent and continued at its own indentation.
\* "ambiguous": nothing follows a "::" at its indentation plus 2 or deeper.
\* "bad indent": a line is indented differently from every open block.
\* "mixed": a block holds list items and dict entries.
RECURSIVE Layout(_, _, _, _)
Layout(ls, i, stack, pending) ==
  IF i > Len(ls) THEN (IF pending THEN "ambiguous" ELSE "ok")
  ELSE LET n    == IndentOf(ls[i])
           top  == stack[Len(stack)]
           left == Dedent(stack, n)
       IN IF pending
          THEN (IF n < top.indent + 2 THEN "ambiguous"
                ELSE IF n > top.indent + 2 THEN "bad indent"
                ELSE Layout(ls, i + 1,
                            Append(stack, [indent |-> n, kind |-> KindOf(ls[i])]),
                            OpensBlock(ls[i])))
          ELSE IF left[Len(left)].indent # n THEN "bad indent"
          ELSE IF left[Len(left)].kind # KindOf(ls[i]) THEN "mixed"
          ELSE Layout(ls, i + 1, left, OpensBlock(ls[i]))

LayoutOf(text) ==
  LET ls == ContentLines(text) IN
  IF ls = <<>> \/ IndentOf(ls[1]) # 0 THEN "mixed"
  ELSE Layout(ls, 2, <<[indent |-> 0, kind |-> KindOf(ls[1])]>>, OpensBlock(ls[1]))

\* C6: when a "key::" (or "- ::") at indentation n is followed by the end of
\* the line or a comment, and the next content line is missing or indented
\* less than n + 2, Unmarshal fails with the ambiguous-empty-vector error;
\* "key:: []" and "key:: {}" decode to an empty list and an empty dict.
C6_EmptyVector ==
  pc # "start" =>
    /\ LayoutOf(data) = "ambiguous" => err.kind = "ambiguous empty vector after '::'"
    /\ data = <<"e", ":", ":", " ", "[", "]">> => ~IsErr(err) /\ v = VDict([k \in {<<"e">>} |-> VList(<<>>)])
    /\ data = <<"f", ":", ":", " ", "{", "}">> => ~IsErr(err) /\ v = VDict([k \in {<<"f">>} |-> VDict(<<>>)])

\* "k::" with a comment after it and the next line at the indentation of k
\* was rejected as an ambiguous empty vector.
C6_Witness ==
  /\ pc = "decoded"
  /\ data = Below(<<"k", ":", ":", " ", "#", " ", "c">>, <<"b", ":", " ", "2">>)
  /\ err = LineErr(2, "ambiguous empty vector after '::'")

RootForms ==
  {<<"1">>, <<"\"", "s", "\"">>, <<"\"", "\"", "\"", "\n", " ", " ", "t", "\n", "\"", "\"", "\"">>, <<"[", "]">>, <<"{", "}">>, <<"1", ",", " ", "2">>, <<"a", ":", " ", "1", ",", " ", "b", ":", " ", "2">>,
   <<"-", " ", "1">>, <<"-", " ", "1", "\n", "-", " ", "2">>, <<"-", " ", ":", ":", "\n", " ", " ", "a", ":", " ", "1">>, <<"k", ":", " ", "1">>, <<"k", ":", ":", "\n", " ", " ", "a", ":", " ", "1">>, <<"k", ":", ":", " ", "1", ",", " ", "2">>, <<"k", ":", " ", "1", "\n", "j", ":", " ", "2">>}

\* Lines of content, none blank and none a comment.
ExtraLines == {<<"2">>, <<"\"", "x", "\"">>, <<"t", "r", "u", "e">>, <<"z", ":", " ", "3">>, <<"z", ":", ":", " ", "3", ",", " ", "4">>, <<"-", " ", "3">>, <<"-", " ", ":", ":", " ", "[", "]">>, <<"[", "]">>}

\* What stands between the root value and the further line.
RootGaps == {<<>>, <<"\n">>, <<"\n", "#", " ", "c">>, <<"\n", "\n", "#", " ", "c", "\n">>}

\* Is the root value a multi-line list, a multi-line dict.
IsListRoot(root) == root[1] = "-"

IsDictRoot(root) == root[1] = "k"

\* Is the line a further item of a root list or a further entry of a root
\* dict, and so part of the root value.
ContinuesRoot(root, line) ==
  \/ IsListRoot(root) /\ line[1] = "-"
  \/ IsDictRoot(root) /\ line[1] = "z"

\* The documents with a further line of content after the root value.
RootEndTable ==
  {<<(root \o gap) \o (<<"\n">> \o line), root, line>> :
     root \in RootForms, gap \in RootGaps, line \in ExtraLines}

RootEndDocs ==
  {t[1] : t \in RootEndTable} \cup {root \o gap : root \in RootForms, gap \in RootGaps}

InitRootEnd == InitWith(RootEndDocs)

SpecRootEnd == InitRootEnd /\ [][Next]_vars

\* C11: Unmarshal fails for every document that has a non-blank, non-comment
\* line after its root value, whichever form the root value has (scalar,
\* [], {}, inline list, inline dict, multi-line list, multi-line dict).
C11_RootEnd ==
  \A t \in RootEndTable :
    (data = t[1] /\ pc # "start" /\ ~ContinuesRoot(t[2], t[3])) => IsErr(err)

\* The same for the roots that are no multi-line list: what the parser does
\* reject.
C11_RootEndButLists ==
  \A t \in RootEndTable :
    (data = t[1] /\ pc # "start" /\ ~ContinuesRoot(t[2], t[3]) /\ ~IsListRoot(t[2]))
      => IsErr(err)
\* ------------------------------------------------ one document a Decoder

\* C12: once a Decode call on a Decoder has returned without an error, every
\* later Decode call on the same Decoder returns an error.
C12_OneDocument ==
  \A i \in 1..Len(calls) : \A j \in 1..Len(calls) :
    (i < j /\ ~IsErr(calls[i].err)) => IsErr(calls[j].err)

\* The same for the documents whose root value is no multi-line list.
C12_OneDocumentButLists ==
  (data # <<>> /\ data[1] # "-") => C12_OneDocument
\* ------------------------------------------------------ multi-line strings

\* The content lines of the multi-line string documents: spaces, a word or
\* two, spaces.
MLBodies == {<<"a">>, <<"a", " ", " ", "b">>}

MLLines == {(Spaces(n) \o b) \o Spaces(t) : n \in 0..4, b \in MLBodies, t \in 0..2}

MLSecondLines == {<<"b">>, <<" ", " ", "b">>, <<" ", " ", " ", " ", "b", " ">>, <<>>, <<" ", " ", " ">>, <<" ", "b", " ", " ">>}

MLContents == {<<l1>> : l1 \in MLLines} \cup {<<l1, l2>> : l1 \in MLLines, l2 \in MLSecondLines}

\* The lines of a sequence, each ended by a newline.
RECURSIVE LinesText(_)
LinesText(ls) == IF ls = <<>> THEN <<>> ELSE (ls[1] \o <<"\n">>) \o LinesText(Tail(ls))

\* The document with the string as the value of the key k, the key at
\* indentation keyIndent (0: at the root, 2: in the dict of a root key p),
\* between the delimiters delim.
MLDoc(ls, keyIndent, delim) ==
  ((IF keyIndent = 0 THEN <<>> ELSE <<"p", ":", ":", "\n">> \o Spaces(keyIndent))
     \o ((<<"k", ":", " ">> \o delim) \o <<"\n">>))
    \o (LinesText(ls) \o (Spaces(keyIndent) \o delim))

\* The value of the key k in what Unmarshal returned for such a document.
MLValue(val, keyIndent) ==
  IF keyIndent = 0 THEN val.m[<<"k">>] ELSE val.m[<<"p">>].m[<<"k">>]

StripTable == {<<MLDoc(ls, ki, mlQuote), ls, ki>> : ls \in MLContents, ki \in {0, 2}}

PreserveTable == {<<MLDoc(ls, ki, mlFence), ls, ki>> : ls \in MLContents, ki \in {0, 2}}

MultilineDocs == {t[1] : t \in StripTable \cup PreserveTable}

InitMultiline == InitWith(MultilineDocs)

SpecMultiline == InitMultiline /\ [][Next]_vars

\* A line without the spaces at its start and at its end.
TrimBoth(line) == TrimRight(ContentOf(line))

\* The lines joined with newlines.
RECURSIVE JoinNL(_)
JoinNL(ls) ==
  IF ls = <<>> THEN <<>>
  ELSE IF Len(ls) = 1 THEN ls[1] ELSE (ls[1] \o <<"\n">>) \o JoinNL(Tail(ls))

\* A line without its first n characters when they are all spaces.
DropIndent(line, n) ==
  IF Len(line) >= n /\ isSpaceBytes(SubSeq(line, 1, n))
  THEN SubSeq(line, n + 1, Len(line)) ELSE line

\* C13: the string decoded from a multi-line string opened by """ is its
\* content lines, each without all of its leading and all of its trailing
\* whitespace, joined with newlines.
C13_StripMode ==
  \A t \in StripTable :
    (data = t[1] /\ pc = "decoded" /\ ~IsErr(err)) =>
      MLValue(v, t[3]) = VString(JoinNL([i \in 1..Len(t[2]) |-> TrimBoth(t[2][i])]))

\* What the lexer does with the content lines of a """ string: each loses
\* its first keyIndent + 2 characters when they are all spaces, and nothing
\* else.
StripModeAsCoded ==
  \A t \in StripTable :
    (data = t[1] /\ pc = "decoded") =>
      /\ ~IsErr(err)
      /\ MLValue(v, t[3]) = VString(JoinNL([i \in 1..Len(t[2]) |-> DropIndent(t[2][i], t[3] + 2)]))

\* C14: a multi-line string opened by three backticks and closed by three
\* backticks at the key's indentation is accepted, and the string decoded
\* from it is its content lines, each without its first keyIndent + 2
\* characters when they are all spaces and otherwise verbatim, joined with
\* newlines.
C14_PreserveMode ==
  \A t \in PreserveTable :
    (data = t[1] /\ pc = "decoded") =>
      /\ ~IsErr(err)
      /\ MLValue(v, t[3]) = VString(JoinNL([i \in 1..Len(t[2]) |-> DropIndent(t[2][i], t[3] + 2)]))

\* What the lexer does with a value that starts with a backtick.
PreserveModeAsCoded ==
  \A t \in PreserveTable :
    (data = t[1] /\ pc = "decoded") =>
      err = LineErr(IF t[3] = 0 THEN 1 ELSE 2, "unexpected character")
\* ----------------------------------------------------- unicode escapes

\* Four hexadecimal digits and the character of that code point.
UnicodeGood == {<<<<"0", "0", "4", "1">>, "A">>, <<<<"0", "0", "6", "1">>, "a">>, <<<<"0", "0", "7", "A">>, "z">>, <<<<"0", "0", "7", "a">>, "z">>, <<<<"0", "0", "3", "0">>, "0">>}

\* What follows a backslash-u that is no run of four hexadecimal digits.
UnicodeBad == {<<>>, <<"0">>, <<"0", "0">>, <<"0", "0", "4">>, <<"0", "0", "4", "g">>, <<"g", "0", "4", "1">>, <<"0", "0", " ", "4", "1">>, <<"X", "X", "X", "X">>, <<"1", "2">>}

\* The other escapes and strings of the family.
OtherStrings == {<<>>, <<"a">>, <<"\\", "n">>, <<"\\", "t">>, <<"\\", "\\">>, <<"\\", "\"">>, <<"\\", "/">>, <<"\\", "x">>, <<"\\">>}

EscapePrefixes == {<<>>, <<"a">>, <<"\\", "n">>}

EscapeSuffixes == {<<>>, <<"b">>}

\* The document: the quoted string alone (place 0) or as the value of k.
EscapeDoc(place, body) ==
  ((IF place = 0 THEN <<>> ELSE <<"k", ":", " ">>) \o <<"\"">>) \o (body \o <<"\"">>)

EscapeValue(val, place) == IF place = 0 THEN val ELSE val.m[<<"k">>]

\* What the prefix decodes to.
PrefixText(p) == IF p = <<"\\", "n">> THEN <<"\n">> ELSE p

\* <<document, place, digits, decoded string or <<>> when none>>
UnicodeTable ==
  {<<EscapeDoc(pl, (p \o (<<"\\", "u">> \o g[1])) \o s), pl, g[1], (PrefixText(p) \o <<g[2]>>) \o s>> :
     pl \in {0, 1}, p \in EscapePrefixes, g \in UnicodeGood, s \in EscapeSuffixes}
  \cup
  {<<EscapeDoc(pl, (p \o (<<"\\", "u">> \o b)) \o s), pl, b, <<>>>> :
     pl \in {0, 1}, p \in EscapePrefixes, b \in UnicodeBad, s \in EscapeSuffixes}

IsGoodUnicode(t) == \E g \in UnicodeGood : g[1] = t[3]

EscapeDocs ==
  {t[1] : t \in UnicodeTable}
  \cup {EscapeDoc(pl, (p \o o) \o s) :
          pl \in {0, 1}, p \in EscapePrefixes, o \in OtherStrings, s \in EscapeSuffixes}

InitEscape == InitWith(EscapeDocs)

SpecEscape == InitEscape /\ [][Next]_vars

\* C15: in a double-quoted string a backslash-u followed by four hexadecimal
\* digits is accepted and decodes to the character of that code point, and a
\* backslash-u followed by anything else makes Unmarshal fail.
C15_UnicodeEscape ==
  \A t \in UnicodeTable :
    (data = t[1] /\ pc = "decoded") =>
      IF IsGoodUnicode(t)
      THEN ~IsErr(err) /\ EscapeValue(v, t[2]) = VString(t[4])
      ELSE IsErr(err)

\* What scanQuotedString does with every backslash-u.
UnicodeEscapeAsCoded ==
  \A t \in UnicodeTable :
    (data = t[1] /\ pc = "decoded") => err = LineErr(1, "invalid escape character")
\* ------------------------------------------------------ version directive

\* The version the encoder writes in its header line.
SupportedVersion == SubSeq(versionHeader, 7, 12)

Versions == {SupportedVersion, <<"v", "0", ".", "2", ".", "0">>, <<"v", "9", ".", "9", ".", "9">>, <<"1", ".", "0">>, <<"0", ".", "1", ".", "0">>, <<"v", "0", ".", "1", ".", "0", "0">>, <<"x">>, <<"v", "0", ".", "1">>}

\* What follows the directive on its line.
VersionLineEnds == {<<>>, <<" ", "#", " ", "c">>}

\* The documents after the directive line.
VersionBodies == {<<"k", ":", " ", "1">>, <<"\"", "a", "\"">>, <<"-", " ", "1">>, <<"1", ",", " ", "2">>, <<"k", ":", ":", " ", "1", ",", " ", "2">>, <<"[", "]">>, <<"k", ":", ":", "\n", " ", " ", "a", ":", " ", "1">>, <<"t", "r", "u", "e">>, <<"k", ":", " ", "\"", "a", "\"", "\n", "j", ":", " ", "2">>}

\* <<document, version>>
VersionTable ==
  {<<((<<"%", "H", "U", "M", "L", " ">> \o ver) \o e) \o (<<"\n">> \o b), ver>> :
     ver \in Versions, e \in VersionLineEnds, b \in VersionBodies}

VersionDocs == {t[1] : t \in VersionTable} \cup VersionBodies

InitVersion == InitWith(VersionDocs)

SpecVersion == InitVersion /\ [][Next]_vars

\* C16: a document whose first line is the directive with a version other
\* than the supported one is rejected by Unmarshal, whatever follows it.
C16_SupportedVersion ==
  \A t \in VersionTable :
    (data = t[1] /\ pc = "decoded" /\ t[2] # SupportedVersion) => IsErr(err)

\* What scanVersion does: the document decodes as the document without its
\* directive line does, whatever the version.
VersionAsCoded ==
  \A t \in VersionTable : \A b \in VersionBodies :
    (data = t[1] /\ pc = "decoded" /\ b = SubSeq(t[1], Len(t[1]) - Len(b) + 1, Len(t[1]))
       /\ t[1][Len(t[1]) - Len(b)] = "\n" /\ \A i \in 1..(Len(t[1]) - Len(b) - 1) : t[1][i] # "\n")
      => /\ ~IsErr(err)
         /\ v = Unmarshal(b).val
\* -------------------------------------------------------- integer literals

MaxInt == 2 ^ (IntBits - 1) - 1

MinInt == -(2 ^ (IntBits - 1))

\* <<prefix, base>>
IntBases == {<<<<>>, 10>>, <<<<"0", "x">>, 16>>, <<<<"0", "o">>, 8>>, <<<<"0", "b">>, 2>>}

\* The numbers whose digits make the literals: small ones, and the ones
\* around the largest integer and around the modulus.
LitNumbers ==
  {0, 1, 7, 255, 1000, MaxInt - 1, MaxInt, MaxInt + 1, MaxInt + 2,
   2 * MaxInt + 1, 2 * MaxInt + 2, 2 * MaxInt + 3, 4 * MaxInt + 11}

\* The digits of n >= 0 in the base.
RECURSIVE BaseDigits(_, _)
BaseDigits(n, base) ==
  IF n < base
  THEN <<CHOOSE c \in {"0", "1", "2", "3", "4", "5", "6", "7", "8", "9",
                       "a", "b", "c", "d", "e", "f"} : DigitValue(c) = n>>
  ELSE BaseDigits(n \div base, base) \o BaseDigits(n % base, base)

\* The digits with a '_' before the last three, when there are more.
Separated(ds) ==
  IF Len(ds) > 3
  THEN (SubSeq(ds, 1, Len(ds) - 3) \o <<"_">>) \o SubSeq(ds, Len(ds) - 2, Len(ds))
  ELSE ds

\* <<literal, the number it stands for>>
IntLiterals ==
  {<<(s[1] \o b[1]) \o (IF sep THEN Separated(BaseDigits(n, b[2])) ELSE BaseDigits(n, b[2])),
     s[2] * n>> :
     s \in {<<<<>>, 1>>, <<<<"+">>, 1>>, <<<<"-">>, -1>>}, b \in IntBases, n \in LitNumbers,
     sep \in BOOLEAN}

\* <<document, place, number>>: the literal alone (place 0) or as the value of k
IntTable ==
  {<<(IF pl = 0 THEN <<>> ELSE <<"k", ":", " ">>) \o t[1], pl, t[2]>> : pl \in {0, 1}, t \in IntLiterals}

IntDocs == {t[1] : t \in IntTable}

InitInt == InitWith(IntDocs)

SpecInt == InitInt /\ [][Next]_vars

\* C17: an integer literal decodes to the integer it stands for when that
\* fits the signed integer type, and is rejected with an error when it does
\* not; it never decodes to another number.
C17_ExactIntegers ==
  \A t \in IntTable :
    (data = t[1] /\ pc = "decoded") =>
      IF t[3] >= MinInt /\ t[3] <= MaxInt
      THEN ~IsErr(err) /\ EscapeValue(v, t[2]) = VInt(t[3])
      ELSE IsErr(err)

\* What parseIntValue does: the number modulo the width of the type, and no
\* error.
IntegersAsCoded ==
  \A t \in IntTable :
    (data = t[1] /\ pc = "decoded") =>
      ~IsErr(err) /\ EscapeValue(v, t[2]) = VInt(WrapInt(t[3]))
\* ------------------------------------------------------------ error lines

\* Where a value stands: alone, after a key, in a list item, in an inline list.
ErrPlaces == {<<>>, <<"k", ":", " ">>, <<"-", " ">>, <<"k", ":", ":", " ", "1", ",", " ">>, <<"1", ",", " ">>, <<"k", ":", ":", " ">>, <<"-", " ", ":", ":", " ">>}

\* Values, well formed and not.
ErrValues ==
  {<<"1">>, <<"\"", "a", "\"">>, <<"t", "r", "u", "e">>, <<"1", ".", "5">>, <<"#", " ", "c">>, <<"1", "e">>, <<"1", "e", "+">>, <<"1", ".", "2", ".", "3">>, <<"1", "_", "e">>, <<"\"", "a">>, <<"+">>, <<"0", "x">>, <<"@">>,
   <<"1", " ", " ">>, <<"\"", "\\", "q", "\"">>, <<"a">>, <<"1", " ", "#", "c">>, <<"1", " ", "#", " ", "c">>, <<":">>, <<",">>, <<"[", "]">>, <<"1", ",", "2">>, <<>>}

\* The lines before the value's line.
ErrHeads == {<<>>, <<"#", " ", "c", "\n">>, <<"\n", "\n">>}

ErrDocs == {(h \o p) \o val : h \in ErrHeads, p \in ErrPlaces, val \in ErrValues}

InitErr == InitWith(ErrDocs)

SpecErr == InitErr /\ [][Next]_vars

\* C18: every error Unmarshal returns for a document that is not empty, and
\* every error the first Decode call of a Decoder on it returns, carries the
\* number of a line of the document, counted from 1.
C18_LineTagged ==
  data # <<>> =>
    /\ (pc # "start" /\ IsErr(err)) => err.line >= 1
    /\ (Len(calls) >= 1 /\ IsErr(calls[1].err)) => calls[1].err.line >= 1

\* The errors that carry no line.
UntaggedErrors ==
  {"empty document is undefined", "unexpected end of input, expected a value",
   "strconv.ParseFloat: invalid syntax"}

\* What the code does: the errors of the lexer carry the line, and so do the
\* parser's but for the three above.
LineTaggedAsCoded ==
  /\ (pc # "start" /\ IsErr(err)) =>
       IF err.kind \in UntaggedErrors THEN err.line = 0
       ELSE err.line >= 1 /\ err.line <= Len(SelectSeq(data, LAMBDA c : c = "\n")) + 1
  /\ \A i \in 1..Len(calls) : IsErr(calls[i].err) =>
       IF calls[i].err.kind \in UntaggedErrors THEN calls[i].err.line = 0
       ELSE calls[i].err.line >= 1
\* ------------------------------------------------ Marshal on object graphs

decodeVars == <<data, pc, v, err, ord1, out, encErr, ord2, out2, v2, err2, dec, calls, scn, dst, pool>>

\* The innermost call in progress is one of the function fn.
Running(fn) ==
  /\ enc.status = "running"
  /\ enc.stack # <<>>
  /\ Len(enc.stack) <= MaxStack
  /\ Top(enc).fn = fn

\* Marshal(root): the version directive, and Encode's call of marshalValue.
DoEncode ==
  /\ enc.status = "idle"
  /\ enc' = [enc EXCEPT !.st = [newState EXCEPT !.w = versionHeader],
                        !.stack = <<Frame("marshalValue", enc.root, 0)>>,
                        !.status = "running"]
  /\ UNCHANGED decodeVars

DoIndirect == Running("indirect") /\ enc' = stepIndirect(enc) /\ UNCHANGED decodeVars

DoMarshalValue == Running("marshalValue") /\ enc' = stepMarshalValue(enc) /\ UNCHANGED decodeVars

DoMarshalMap == Running("marshalMap") /\ enc' = stepMarshalMap(enc) /\ UNCHANGED decodeVars

DoWriteKVPair == Running("writeKVPair") /\ enc' = stepWriteKVPair(enc) /\ UNCHANGED decodeVars

DoMarshalSlice == Running("marshalSlice") /\ enc' = stepMarshalSlice(enc) /\ UNCHANGED decodeVars

\* marshalValue has returned to Encode: the final newline, and Marshal's
\* return of Encoded(enc.st).
DoEncodeReturn ==
  /\ enc.status = "running"
  /\ enc.stack = <<>>
  /\ enc' = [enc EXCEPT !.st = IF IsErr(@.err) THEN @ ELSE write(@, <<"\n">>),
                        !.status = "returned"]
  /\ UNCHANGED decodeVars

\* The calls have gone deeper than the stack allows: the runtime ends the
\* program, and Marshal never returns.
DoStackOverflow ==
  /\ enc.status = "running"
  /\ Len(enc.stack) > MaxStack
  /\ enc' = [enc EXCEPT !.status = "stack overflow"]
  /\ UNCHANGED decodeVars

NextGraph ==
  \/ DoEncode
  \/ DoIndirect
  \/ DoMarshalValue
  \/ DoMarshalMap
  \/ DoWriteKVPair
  \/ DoMarshalSlice
  \/ DoEncodeReturn
  \/ DoStackOverflow

\* <<heap, root>>: values with and without a cycle.
Graphs ==
  {<<<<NMap(<<"a">> :> 1)>>, 1>>,
   <<<<NSlice(<<2>>), NIface(1)>>, 1>>,
   <<<<NIface(2), NPtr(1)>>, 1>>,
   <<<<NPtr(1)>>, 1>>,
   <<<<NMap(<<"a">> :> 2), NPtr(3), NMap(<<"b">> :> 1)>>, 1>>,
   <<<<NMap(<<"k">> :> 2), NSlice(<<3>>), NMap(<<"k">> :> 2)>>, 1>>,
   <<<<NMap(<<"a">> :> 2), NIface(3), NPtr(2)>>, 1>>,
   <<<<NSlice(<<2>>), NIface(3), NPtr(2)>>, 1>>,
   <<<<NMap(<<"a">> :> 2 @@ <<"b">> :> 3), NInt(1), NSlice(<<2, 4>>), NPtr(0)>>, 1>>,
   <<<<NPtr(2), NPtr(3), NInt(7)>>, 1>>,
   <<<<NMap(<<"a">> :> 2 @@ <<"b">> :> 2), NMap(<<"c">> :> 3), NInt(5)>>, 1>>,
   <<<<NMap(<<"a">> :> 2 @@ <<"b">> :> 3), NMap(<<>>), NSlice(<<>>)>>, 1>>,
   <<<<NSlice(<<2, 3, 4>>), NSlice(<<>>), NInt(3), NSlice(<<3>>)>>, 1>>,
   <<<<NSlice(<<>>)>>, 1>>,
   <<<<NMap(<<>>)>>, 1>>,
   <<<<NInt(4)>>, 0>>}

\* The state before the Marshal call on a value of the set; no document.
InitGraph ==
  /\ data = <<>>
  /\ pc = "start"
  /\ v = VNull
  /\ err = NoErr
  /\ ord1 = 0
  /\ ord2 = 0
  /\ out = <<>>
  /\ encErr = NoErr
  /\ out2 = <<>>
  /\ v2 = VNull
  /\ err2 = NoErr
  /\ dec = newLexer(data)
  /\ calls = <<>>
  /\ scn = ScnStart
  /\ dst = DstIdle
  /\ pool = PoolIdle
  /\ enc \in {[EncIdle EXCEPT !.heap = g[1], !.root = g[2]] : g \in Graphs}

SpecGraph == InitGraph /\ [][NextGraph]_vars

\* The nodes a node holds.
Held(heap, n) ==
  CASE heap[n].k \in {"ptr", "iface"} -> {heap[n].to} \ {0}
    [] heap[n].k = "map"   -> {heap[n].kv[key] : key \in DOMAIN heap[n].kv}
    [] heap[n].k = "slice" -> {heap[n].xs[j] : j \in 1..Len(heap[n].xs)}
    [] OTHER -> {}

\* The nodes reachable from the nodes of S in one step or more, the steps
\* taken from the nodes of a kind in K only.
RECURSIVE ReachVia(_, _, _, _)
ReachVia(heap, S, K, n) ==
  IF n = 0 THEN {}
  ELSE LET one == UNION {Held(heap, x) : x \in {y \in S : heap[y].k \in K}}
       IN one \cup ReachVia(heap, one, K, n - 1)

AllKinds == {"ptr", "iface", "map", "slice", "int"}

FromRoot(e) ==
  IF e.root = 0 THEN {} ELSE {e.root} \cup ReachVia(e.heap, {e.root}, AllKinds, Len(e.heap))

\* The value is reachable from itself.
IsCyclic(e) == \E n \in FromRoot(e) : n \in ReachVia(e.heap, {n}, AllKinds, Len(e.heap))

\* The encoder meets a chain of pointers and interfaces that closes on itself.
HasPointerCycle(e) ==
  \E n \in FromRoot(e) : n \in ReachVia(e.heap, {n}, {"ptr", "iface"}, Len(e.heap))

\* C19: a Marshal call on a value whose object graph has a cycle returns, and
\* returns an error: its calls never go deeper without bound.
C19_CyclicTerminates ==
  IsCyclic(enc) =>
    /\ enc.status # "stack overflow"
    /\ enc.status = "returned" => IsErr(enc.st.err)

\* What the encoder does: a cycle made of pointers and interfaces alone ends
\* in indirect's error; a cycle through a map or a slice makes the calls go
\* deeper until the stack is exhausted; a value without a cycle is encoded.
CyclesAsCoded ==
  /\ enc.status = "stack overflow" => IsCyclic(enc) /\ ~HasPointerCycle(enc)
  /\ enc.status = "returned" =>
       /\ IsErr(enc.st.err) <=> HasPointerCycle(enc)
       /\ IsCyclic(enc) => HasPointerCycle(enc)

\* A cycle of pointers and interfaces alone has been reported as an error.
PointerCycleReported ==
  enc.status = "returned" /\ HasPointerCycle(enc) /\ IsErr(enc.st.err)
\* ------------------------------------------------------- arbitrary input

\* The bytes of the short inputs, and their greatest length.
FuzzBytes == {" ", "\n", "\"", ":", "-", ",", "#", "1", "a"}

FuzzLen == 4

RECURSIVE BytesOfLen(_)
BytesOfLen(n) ==
  IF n = 0 THEN {<<>>} ELSE {Append(s, c) : s \in BytesOfLen(n - 1), c \in FuzzBytes}

\* Longer inputs, among them the ones that end in the middle of a construct.
FuzzSeeds ==
  {<<"%", "H", "U", "M", "L">>, <<"%", "H", "U", "M", "L", " ">>, <<"%", "H", "U", "M", "L", " ", "v", "0", ".", "1", ".", "0">>, <<"%", "H", "U", "M", "L", " ", "1", ".", "0", " ", "#", " ", "c">>, <<"%", "H", "U", "M", "L", "\n">>, <<"%", "H", "U", "M", "L", "x", "\n", "1">>, <<"%">>, <<"%", "H", ":">>,
   <<"\"", "\"", "\"">>, <<"\"", "\"", "\"", "\"">>, <<"\"", "\"", "\"", "\n">>, <<"\"", "\"", "\"", "\n", "\"", "\"", "\"">>, <<"\"", "\"", "\"", "\n", "a">>, <<"\"", "\"", "\"", " ", "a", "\n", "\"", "\"", "\"">>, <<"k", ":", " ", "\"", "\"", "\"">>, <<"k", ":", " ", "\"", "\"", "\"", "\n", " ", " ", "a">>, <<"k", ":", " ", "\"", "\"", "\"", "\n", " ", " ", "a", "\n", " ", "\"", "\"", "\"">>,
   <<"k", ":", " ", "\"", "\"", "\"", "\n", " ", " ", "a", "\n", "\"", "\"", "\"", "x">>, <<"1", ",", " ", "\"", "\"", "\"">>, <<"k", ":", ":", " ", "\"", "\"", "\"", ",", " ", "1">>, <<"-", " ", "\"", "\"", "\"">>, <<"-", " ", "\"", "\"", "\"", "\n", " ", " ", "a", "\n", "\"", "\"", "\"">>, <<"\"", "\"", "\"", ":", " ", "1">>, <<"-", " ", ":", ":", "\n", " ", " ", "\"", "\"", "\"">>,
   <<"k", ":", " ", "\"", "a", "\\">>, <<"k", ":", " ", "\"", "\\">>, <<"\"", "\\", "\"">>, <<"k", ":", " ", "\"", "a">>, <<"k", ":", " ", "+">>, <<"+">>, <<"-">>, <<"k", ":", " ", "-">>, <<"0", "x">>, <<"0">>, <<"0", "b", "_">>, <<"1", "e">>, <<"1", ".">>, <<".">>, <<"1", "_", "_">>,
   <<"k", ":", " ", "0", "x">>, <<"k", ":", " ", "0", "o", "8">>, <<"+", "i">>, <<"+", "i", "n", "f">>, <<"-", "i", "n">>, <<"[">>, <<"[", "]">>, <<"[", "]", "]">>, <<"{">>, <<"{", "}">>, <<"{", "}", ":">>, <<"k", ":", ":", " ", "[">>, <<"k", ":", ":", " ", "[", "]", "x">>,
   <<":", ":">>, <<":", ":", " ", "[", "]">>, <<"k", ":", ":">>, <<"k", ":", ":", "\n">>, <<"k", ":", ":", "\n", " ", " ">>, <<"k", ":", ":", "\n", " ", " ", "-">>, <<"k", ":", ":", "\n", " ", " ", "-", " ">>, <<"k", ":", ":", "\n", " ", " ", "a">>, <<"k", ":", ":", "\n", " ", " ", "a", ":">>, <<"-", " ", ":", ":">>, <<"-", " ", ":", ":", "\n", " ", " ", "-">>,
   <<"\t">>, <<"\t", "k", ":", " ", "1">>, <<"k", ":", "\t", "1">>, <<"k", ":", " ", "1", "\r", "\n">>, <<"@">>, <<"k", ":", " ", "@">>, <<"a", " ", "b">>, <<"t", "r", "u", "e">>, <<"t", "r", "u">>, <<"n", "u", "l", ":">>, <<"i", "n", "f">>, <<"n", "a", "n", ":", " ", "n", "a", "n">>}

FuzzDocs == UNION {BytesOfLen(n) : n \in 0..FuzzLen} \cup FuzzSeeds

InitFuzz == InitWith(FuzzDocs)

NextFuzz ==
  \/ DoScan
  \/ DoDecode
  \/ DoUnmarshal

SpecFuzz == InitFuzz /\ [][NextFuzz]_vars

\* The position of a lexer is inside its line, or at its end.
InBounds(l) == l.pos >= 0 /\ (l.line = <<>> \/ l.pos <= Len(l.line))

\* The lexer b has consumed input that the lexer a had not: bytes of the
\* reader, or bytes of the line.
Consumed(a, b) == Len(b.rd) < Len(a.rd) \/ (Len(b.rd) = Len(a.rd) /\ b.pos > a.pos)

LastTok == scn.toks[Len(scn.toks)]

\* The token that marks the start of a multi-line string.
IsMarker(tok) == tok.Type = "String" /\ tok.Value = mlQuote

\* Unmarshal and Decode have returned a value or an error, and have left the
\* lexer inside its line.
ReturnsInBounds ==
  /\ pc = "decoded" => (IsErr(err) => v = VNull)
  /\ \A i \in 1..Len(calls) : IsErr(calls[i].err) => calls[i].val = VNull
  /\ InBounds(dec)
  /\ InBounds(scn.lx)
  /\ Len(scn.toks) <= Len(data) + 1 \/ \E i \in 1..Len(scn.toks) : IsMarker(scn.toks[i])

\* Unmarshal returns for every input, no step leaves the line, and every scan
\* call consumes input or returns the end of the input (or an error, which
\* ends the scanning).
ScanAlwaysConsumes ==
  /\ ReturnsInBounds
  /\ scn.toks # <<>> =>
       (LastTok.Type \in {"EOF", "Error"} \/ Consumed(scn.before, scn.lx))

\* C20: Unmarshal returns a value or an error for every input, no step of
\* the lexer leaves the line, and every scan call consumes input, or returns
\* the end of the input, an error, or the marker of a multi-line string
\* without consuming it.
C20_NoPanic ==
  /\ ReturnsInBounds
  /\ scn.toks # <<>> =>
       \/ LastTok.Type \in {"EOF", "Error"}
       \/ IsMarker(LastTok) /\ scn.lx.pos = scn.before.pos
       \/ Consumed(scn.before, scn.lx)

\* Unmarshal has returned for an input on which scan returns the marker again
\* and again.
C20_Witness ==
  /\ pc = "decoded"
  /\ \E i \in 1..Len(data) : data[i] = "\""
  /\ IsErr(err)
  /\ peek(peek(newLexer(data)).lx).tok = peek(newLexer(data)).tok
  /\ IsMarker(peek(newLexer(data)).tok)
\* ------------------------------------------------------ root classification

\* First lines `key: value`: <<line, key, value, has a comma after the key>>
RootFirstLines ==
  {<<<<"k", ":", " ", "\"", "a", ",", "b", "\"">>, <<"k">>, VString(<<"a", ",", "b">>), TRUE>>,
   <<<<"k", ":", " ", "\"", "a", ",", " ", "b", "\"">>, <<"k">>, VString(<<"a", ",", " ", "b">>), TRUE>>,
   <<<<"k", ":", " ", "\"", ",", "\"">>, <<"k">>, VString(<<",">>), TRUE>>,
   <<<<"k", ":", " ", "1", " ", "#", " ", "a", ",", " ", "b">>, <<"k">>, VInt(1), TRUE>>,
   <<<<"k", ":", " ", "\"", "a", "\"", " ", "#", " ", "x", ",", "y">>, <<"k">>, VString(<<"a">>), TRUE>>,
   <<<<"k", ":", " ", "t", "r", "u", "e", " ", "#", " ", ",">>, <<"k">>, VBool(TRUE), TRUE>>,
   <<<<"\"", "p", ",", "q", "\"", ":", " ", "1">>, <<"p", ",", "q">>, VInt(1), FALSE>>,
   <<<<"\"", "p", "\"", ":", " ", "\"", "a", ",", "b", "\"", " ", "#", " ", "c">>, <<"p">>, VString(<<"a", ",", "b">>), TRUE>>,
   <<<<"k", ":", " ", "\"", "a", "b", "\"">>, <<"k">>, VString(<<"a", "b">>), FALSE>>,
   <<<<"k", ":", " ", "1", " ", "#", " ", "a", " ", "b">>, <<"k">>, VInt(1), FALSE>>,
   <<<<"k", ":", " ", "1">>, <<"k">>, VInt(1), FALSE>>,
   <<<<"\"", "p", " ", "q", "\"", ":", " ", "n", "u", "l", "l">>, <<"p", " ", "q">>, VNull, FALSE>>}

\* Further content: <<lines, the entries they hold>>
RootMoreLines ==
  {<<<<"j", ":", " ", "2">>, <<"j">> :> VInt(2)>>,
   <<<<"j", ":", " ", "\"", "c", "\"">>, <<"j">> :> VString(<<"c">>)>>,
   <<<<"j", ":", " ", "\"", "c", ",", "d", "\"">>, <<"j">> :> VString(<<"c", ",", "d">>)>>,
   <<<<"j", ":", " ", "2", " ", "#", " ", "x", ",", " ", "y">>, <<"j">> :> VInt(2)>>,
   <<<<"#", " ", "c", "\n", "j", ":", " ", "2">>, <<"j">> :> VInt(2)>>,
   <<<<"\n", "j", ":", " ", "2">>, <<"j">> :> VInt(2)>>,
   <<<<"j", ":", ":", " ", "1", ",", " ", "2">>, <<"j">> :> VList(<<VInt(1), VInt(2)>>)>>,
   <<<<"j", ":", ":", "\n", " ", " ", "a", ":", " ", "1">>, <<"j">> :> VDict(<<"a">> :> VInt(1))>>,
   <<<<"j", ":", " ", "2", "\n", "z", ":", " ", "3">>, <<"j">> :> VInt(2) @@ <<"z">> :> VInt(3)>>,
   <<<<"j", ":", " ", "2", "\n", "z", ":", " ", "\"", "x", ",", "y", "\"", "\n">>, <<"j">> :> VInt(2) @@ <<"z">> :> VString(<<"x", ",", "y">>)>>}

\* <<document, the dict it stands for, the first line has a comma after the key>>
RootClassTable ==
  {<<Below(f[1], r[1]), VDict((f[2] :> f[3]) @@ r[2]), f[4]>> :
     f \in RootFirstLines, r \in RootMoreLines}

\* The first lines alone, and the one-line inline dicts.
RootClassDocs ==
  {t[1] : t \in RootClassTable} \cup {f[1] : f \in RootFirstLines}
  \cup {<<"k", ":", " ", "1", ",", " ", "j", ":", " ", "2">>, <<"k", ":", " ", "\"", "a", ",", "b", "\"", ",", " ", "j", ":", " ", "2">>, <<"k", ":", " ", "1", ",", " ", "j", ":", " ", "2", " ", "#", " ", "c">>, <<"\"", "p", ",", "q", "\"", ":", " ", "1", ",", " ", "j", ":", " ", "\"", "c", ",", "d", "\"">>}

InitRootClass == InitWith(RootClassDocs)

SpecRootClass == InitRootClass /\ [][Next]_vars

\* C21: a document whose first content line is `key: value` and which has
\* further content lines decodes to the multi-line dict of all its entries,
\* also when the first line has a comma inside a quoted string or a comment.
C21_RootClass ==
  \A t \in RootClassTable :
    (data = t[1] /\ pc = "decoded") => ~IsErr(err) /\ v = t[2]

\* What inferRootType does: a comma anywhere on the first line after the key
\* makes the root an inline dict, and the further lines an error.
RootClassAsCoded ==
  \A t \in RootClassTable :
    (data = t[1] /\ pc = "decoded") =>
      IF t[3] THEN /\ IsErr(err)
                   /\ err.kind = "unexpected content after root"
                   /\ err.line >= 2
      ELSE ~IsErr(err) /\ v = t[2]
\* -------------------------------------------------------------- inline lists

\* Scalar literals and the values they stand for.
InlineScalars ==
  {<<<<"1">>, VInt(1)>>, <<<<"-", "7">>, VInt(-7)>>, <<<<"\"", "a", ",", "b", "\"">>, VString(<<"a", ",", "b">>)>>,
   <<<<"t", "r", "u", "e">>, VBool(TRUE)>>, <<<<"n", "u", "l", "l">>, VNull>>, <<<<"\"", "\"">>, VString(<<>>)>>}

MaxInline == 3

\* The sequences of 1..MaxInline scalar literals.
InlineSeqs == UNION {[1..n -> InlineScalars] : n \in 1..MaxInline}

RECURSIVE JoinComma(_)
JoinComma(xs) ==
  IF Len(xs) = 1 THEN xs[1][1] ELSE (xs[1][1] \o <<",", " ">>) \o JoinComma(Tail(xs))

InlineListOf(xs) == VList([i \in 1..Len(xs) |-> xs[i][2]])

\* What follows the list on its line and below it: <<rest of the line, lines
\* below, entries below>>
InlineAfter ==
  {<<<<>>, <<>>, <<>>>>,
   <<<<" ", "#", " ", "c">>, <<>>, <<>>>>,
   <<<<>>, <<"\n", "j", ":", " ", "3">>, <<"j">> :> VInt(3)>>,
   <<<<" ", "#", " ", "c", ",", " ", "d">>, <<"\n", "j", ":", " ", "\"", "x", "\"", "\n">>, <<"j">> :> VString(<<"x">>)>>}

\* <<document, the dict it stands for, number of values>>
InlineListTable ==
  {<<((<<"k", "e", "y", ":", ":", " ">> \o JoinComma(xs)) \o a[1]) \o a[2],
     VDict((<<"k", "e", "y">> :> InlineListOf(xs)) @@ a[3]), Len(xs)>> :
     xs \in InlineSeqs, a \in InlineAfter}

InitInlineList == InitWith({t[1] : t \in InlineListTable})

SpecInlineList == InitInlineList /\ [][Next]_vars

\* The tokens waiting in the lookahead buffer of a lexer.
Lookahead(l) == SubSeq(l.tokens, l.tokPos + 1, Len(l.tokens))

\* C22: `key:: v1, ..., vn` of n >= 1 scalar literals decodes to the list of
\* the n values in order, and once the document is parsed no value token of
\* the line is waiting in the lexer's lookahead buffer.
C22_InlineList ==
  \A t \in InlineListTable :
    /\ (data = t[1] /\ pc = "decoded") => ~IsErr(err) /\ v = t[2]
    /\ (data = t[1] /\ Len(calls) = 1) =>
         /\ ~IsErr(calls[1].err) /\ calls[1].val = t[2]
         /\ \A i \in DOMAIN Lookahead(dec) : Lookahead(dec)[i].Type = "EOF"

\* What parseInlineVectorValue and parseInlineList do: the peek of the first
\* value moves the lexer past it, so a line of one value is already at its end
\* when the loop starts; the list is empty and the value stays in the buffer,
\* where the dict's next entry finds it in place of a key.
InlineListAsCoded ==
  \A t \in InlineListTable :
    /\ (data = t[1] /\ pc = "decoded") =>
         IF t[3] = 1 THEN err = LineErr(1, "invalid character, expected key")
         ELSE ~IsErr(err) /\ v = t[2]
    /\ (data = t[1] /\ Len(calls) = 1) =>
         IF t[3] = 1
         THEN /\ calls[1].err = LineErr(1, "invalid character, expected key")
         ELSE /\ ~IsErr(calls[1].err) /\ calls[1].val = t[2]
              /\ \A i \in DOMAIN Lookahead(dec) : Lookahead(dec)[i].Type = "EOF"
\* ---------------------------------------------------------------- list items

MaxGap == 3

\* The spaces between the dash of an item line and its value.
ItemGaps == 0..MaxGap

ItemValues == {<<"1">>, <<"\"", "a", "\"">>, <<"t", "r", "u", "e">>, <<"i", "n", "f">>, <<":", ":", " ", "[", "]">>}

\* An item line at indentation n: the dash, g spaces, the value.
ItemLine(n, g, val) == Ln(n, (<<"-">> \o Spaces(g)) \o val)

\* Lists of one or two item lines, at the root and under a key:
\* <<document, the gaps of its item lines, its place, the value after the
\* gap that varies>>. A single root line with no space after the dash is a
\* scalar or nothing, and is left out.
ItemTable ==
  {<<ItemLine(0, g, val), <<g>>, "root", val>> : g \in ItemGaps \ {0}, val \in ItemValues}
  \cup {<<Below(<<"l", ":", ":">>, ItemLine(2, g, val)), <<g>>, "key", val>> :
          g \in ItemGaps, val \in ItemValues}
  \cup {<<Below(ItemLine(0, 1, <<"2">>), ItemLine(0, g, val)), <<1, g>>, "rootSecond", val>> :
          g \in ItemGaps, val \in ItemValues}
  \cup {<<Below(<<"l", ":", ":">>, Below(ItemLine(2, 1, <<"2">>), ItemLine(2, g, val))), <<1, g>>, "key", val>> :
          g \in ItemGaps, val \in ItemValues}
  \cup {<<Below(<<"l", ":", ":">>, Below(ItemLine(2, g, val), ItemLine(2, 1, <<"2">>))), <<g, 1>>, "key", val>> :
          g \in ItemGaps, val \in ItemValues}

InitItems == InitWith({t[1] : t \in ItemTable})

SpecItems == InitItems /\ [][Next]_vars

HasGap(gs, S) == \E i \in DOMAIN gs : gs[i] \in S

\* C23: a list with an item line whose dash is followed by no space, or by
\* two or more spaces, is rejected.
C23_OneSpaceAfterDash ==
  \A t \in ItemTable :
    (data = t[1] /\ pc = "decoded" /\ HasGap(t[2], ItemGaps \ {1})) => IsErr(err)

\* What the lexer does: scanToken makes a list item token of the dash and ONE
\* space, and the scan of the value skips any further spaces, so two or more
\* spaces are accepted. A dash with no space is not an item token; it is an
\* error, except below a root list when it starts a number: the root list
\* ends there and the rest of the document is not looked at.
ItemsAsCoded ==
  \A t \in ItemTable :
    (data = t[1] /\ pc = "decoded") =>
      IF ~HasGap(t[2], {0}) THEN ~IsErr(err)
      ELSE IF t[3] = "rootSecond" /\ t[4] \in {<<"1">>, <<"i", "n", "f">>}
      THEN ~IsErr(err) /\ v = VList(<<VInt(2)>>)
      ELSE IsErr(err)
\* ------------------------------------------------- quoted strings of quotes

\* Pieces of a quoted string's source: <<source text, what it decodes to>>
QuotePieces ==
  {<<<<"\\", "\"">>, <<"\"">>>>, <<<<"a">>, <<"a">>>>,
   <<<<"\\", "\\">>, <<"\\">>>>, <<<<"\\", "n">>, <<"\n">>>>}

MaxPieces == 3

PieceSeqs == UNION {[1..n -> QuotePieces] : n \in 0..MaxPieces}

RECURSIVE PieceSource(_)
PieceSource(ps) == IF ps = <<>> THEN <<>> ELSE ps[1][1] \o PieceSource(Tail(ps))

RECURSIVE PieceText(_)
PieceText(ps) == IF ps = <<>> THEN <<>> ELSE ps[1][2] \o PieceText(Tail(ps))

Quoted(ps) == (<<"\"">> \o PieceSource(ps)) \o <<"\"">>

\* Where the string stands: alone at the root, as a dict value, as a list
\* item, as the second value of an inline list.
QuotePlaces == {"root", "value", "item", "inline"}

QuoteDoc(place, ps) ==
  CASE place = "root" -> Quoted(ps)
    [] place = "value" -> <<"k", ":", " ">> \o Quoted(ps)
    [] place = "item" -> <<"-", " ">> \o Quoted(ps)
    [] place = "inline" -> <<"k", ":", ":", " ", "1", ",", " ">> \o Quoted(ps)

\* The value a document of that place stands for, its string being str.
QuoteValue(place, str) ==
  CASE place = "root" -> VString(str)
    [] place = "value" -> VDict(<<"k">> :> VString(str))
    [] place = "item" -> VList(<<VString(str)>>)
    [] place = "inline" -> VDict(<<"k">> :> VList(<<VInt(1), VString(str)>>))

\* Lines that would be the body and the end of a multi-line string.
QuoteBelow == <<"\n", " ", " ", "b", "\n", "\"", "\"", "\"">>

\* <<document, place, decoded content, lines follow>>
QuoteTable ==
  {<<QuoteDoc(pl, ps), pl, PieceText(ps), FALSE>> : pl \in QuotePlaces, ps \in PieceSeqs}
  \cup {<<QuoteDoc(pl, ps) \o QuoteBelow, pl, PieceText(ps), TRUE>> :
          pl \in QuotePlaces, ps \in PieceSeqs}

InitQuotes == InitWith({t[1] : t \in QuoteTable})

SpecQuotes == InitQuotes /\ [][Next]_vars

\* C24: a single-line quoted string with valid escapes decodes to exactly its
\* unescaped content, and the lines below it are never read as the body of a
\* multi-line string.
C24_QuotedContent ==
  \A t \in QuoteTable :
    (data = t[1] /\ pc = "decoded") =>
      IF t[4] THEN ~(~IsErr(err) /\ v = QuoteValue(t[2], <<"b">>))
      ELSE ~IsErr(err) /\ v = QuoteValue(t[2], t[3])

\* What parseScalarValue and parseListItemValue do: a string token whose
\* VALUE is three quotes is taken for the opening delimiter of a multi-line
\* string, also when it was written as a quoted string of three escaped quotes.
QuotedAsCoded ==
  \A t \in QuoteTable :
    (data = t[1] /\ pc = "decoded") =>
      IF t[3] = <<"\"", "\"", "\"">> /\ t[2] # "inline"
      THEN IF t[4] THEN ~IsErr(err) /\ v = QuoteValue(t[2], <<"b">>)
           ELSE err = LineErr(1, "unclosed multiline string")
      ELSE IF t[4] THEN IsErr(err)
           ELSE ~IsErr(err) /\ v = QuoteValue(t[2], t[3])
\* --------------------------------------------------------- nested collections

\* Documents whose values have collections in collections, empty and not.
NestedHeads == {<<"-", " ", ":", ":">>, <<"k", ":", ":">>, <<"-", " ", "1", "\n", "-", " ", ":", ":">>, <<"a", ":", " ", "1", "\n", "k", ":", ":">>}

NestedBodies ==
  {<<" ", "[", "]">>, <<" ", "{", "}">>, <<"\n", " ", " ", "-", " ", "1">>, <<"\n", " ", " ", "a", ":", " ", "1">>, <<"\n", " ", " ", "-", " ", "1", "\n", " ", " ", "-", " ", "\"", "s", "\"">>, <<"\n", " ", " ", "a", ":", ":", " ", "[", "]">>, <<"\n", " ", " ", "a", ":", ":", " ", "{", "}">>,
   <<"\n", " ", " ", "-", " ", ":", ":", " ", "[", "]">>, <<"\n", " ", " ", "-", " ", ":", ":", " ", "{", "}">>, <<"\n", " ", " ", "-", " ", ":", ":", "\n", " ", " ", " ", " ", "-", " ", "1">>, <<"\n", " ", " ", "-", " ", ":", ":", "\n", " ", " ", " ", " ", "b", ":", " ", "2">>, <<"\n", " ", " ", "a", ":", ":", "\n", " ", " ", " ", " ", "-", " ", "1">>,
   <<"\n", " ", " ", "a", ":", ":", "\n", " ", " ", " ", " ", "b", ":", ":", " ", "{", "}">>, <<"\n", " ", " ", "-", " ", ":", ":", "\n", " ", " ", " ", " ", "-", " ", ":", ":", " ", "[", "]">>, <<"\n", " ", " ", "-", " ", "1", "\n", " ", " ", "-", " ", ":", ":", " ", "{", "}", "\n", " ", " ", "-", " ", "2">>, <<"\n", " ", " ", "a", ":", ":", " ", "[", "]", "\n", " ", " ", "b", ":", ":", "\n", " ", " ", " ", " ", "-", " ", ":", ":", " ", "{", "}">>}

NestedDocs ==
  {h \o b : h \in NestedHeads, b \in NestedBodies}
  \cup {<<"[", "]">>, <<"{", "}">>, <<"-", " ", "1">>, <<"k", ":", " ", "1">>, <<"k", ":", ":", " ", "1", ",", " ", "2">>, <<"k", ":", ":", " ", "a", ":", " ", "1", ",", " ", "b", ":", " ", "2">>}

InitNested == InitWith(NestedDocs)

SpecNested == InitNested /\ [][Next]_vars

IsColl(val) == val.t \in {"list", "dict"}

IsEmptyColl(val) == IF val.t = "list" THEN val.xs = <<>> ELSE DOMAIN val.m = {}

\* The collections inside a value, the value itself left out: for each,
\* whether it is empty.
RECURSIVE Colls(_)
RECURSIVE CollsOfSeq(_)
CollsOfSeq(vals) ==
  IF vals = <<>> THEN <<>>
  ELSE ((IF IsColl(vals[1]) THEN <<IsEmptyColl(vals[1])>> ELSE <<>>) \o Colls(vals[1]))
       \o CollsOfSeq(Tail(vals))
Colls(val) ==
  IF val.t = "list" THEN CollsOfSeq(val.xs)
  ELSE IF val.t = "dict"
  THEN LET ks == SetToSeq(DOMAIN val.m) IN CollsOfSeq([i \in 1..Len(ks) |-> val.m[ks[i]]])
  ELSE <<>>

\* The places of `::` in a text.
VectorMarks(text) ==
  {i \in 1..(Len(text) - 1) : text[i] = ":" /\ text[i + 1] = ":"}

\* The start of the line that holds place i, and the indentation of the line
\* that starts at place s.
LineStartOf(text, i) ==
  IF \E j \in 1..i : text[j] = "\n"
  THEN (CHOOSE j \in 1..i : text[j] = "\n" /\ \A n \in (j + 1)..i : text[n] # "\n") + 1
  ELSE 1

IndentAt(text, s) ==
  IF \E j \in s..Len(text) : text[j] # " "
  THEN (CHOOSE j \in s..Len(text) : text[j] # " " /\ \A n \in s..(j - 1) : text[n] = " ") - s
  ELSE Len(text) + 1 - s

\* After the `::` at place i: a space and an empty marker that ends the line.
MarkEmpty(text, i) ==
  /\ i + 4 <= Len(text)
  /\ SubSeq(text, i + 2, i + 4) \in {<<" ", "[", "]">>, <<" ", "{", "}">>}
  /\ (i + 4 = Len(text) \/ text[i + 5] = "\n")

\* After the `::` at place i: a newline and a line indented deeper than the
\* line of the `::`, which is not an empty marker.
MarkBlock(text, i) ==
  /\ i + 2 < Len(text)
  /\ text[i + 2] = "\n"
  /\ IndentAt(text, i + 3) > IndentAt(text, LineStartOf(text, i))
  /\ i + 2 + IndentAt(text, i + 3) < Len(text)
  /\ SubSeq(text, i + 3 + IndentAt(text, i + 3), i + 4 + IndentAt(text, i + 3)) \notin {<<"[", "]">>, <<"{", "}">>}

CountOf(bs, b) == Len(SelectSeq(bs, LAMBDA x : x = b))

\* C25: in the encoder's output every `::` of a non-empty nested collection
\* is followed by a newline and an indented block, and every `::` of an empty
\* one by a space and `[]` or `{}` on the same line.
C25_VectorLayout ==
  (pc = "encoded" /\ ~IsErr(encErr)) =>
    /\ \A i \in VectorMarks(out) : MarkEmpty(out, i) \/ MarkBlock(out, i)
    /\ Cardinality({i \in VectorMarks(out) : MarkEmpty(out, i)}) = CountOf(Colls(v), TRUE)
    /\ Cardinality({i \in VectorMarks(out) : MarkBlock(out, i)}) = CountOf(Colls(v), FALSE)

\* What marshalSlice does: for an element that is a collection it writes
\* `::` and a newline whether the element is empty or not, and the empty
\* marker comes on the next line, with no indentation. writeKVPair looks at
\* the length first and keeps the empty marker on the key's line.
IsEmptyCollIn(val) == IsColl(val) /\ IsEmptyColl(val)

RECURSIVE EmptyElems(_)
RECURSIVE EmptyElemsOfSeq(_, _)
EmptyElemsOfSeq(vals, inList) ==
  IF vals = <<>> THEN 0
  ELSE (IF inList /\ IsEmptyCollIn(vals[1]) THEN 1 ELSE 0) + EmptyElems(vals[1])
       + EmptyElemsOfSeq(Tail(vals), inList)
EmptyElems(val) ==
  IF val.t = "list" THEN EmptyElemsOfSeq(val.xs, TRUE)
  ELSE IF val.t = "dict"
  THEN LET ks == SetToSeq(DOMAIN val.m) IN
       EmptyElemsOfSeq([i \in 1..Len(ks) |-> val.m[ks[i]]], FALSE)
  ELSE 0

MarkBare(text, i) ==
  /\ i + 4 <= Len(text)
  /\ SubSeq(text, i + 2, i + 4) \in {<<"\n", "[", "]">>, <<"\n", "{", "}">>}
  /\ (i + 4 = Len(text) \/ text[i + 5] = "\n")

VectorLayoutAsCoded ==
  (pc = "encoded" /\ ~IsErr(encErr)) =>
    /\ \A i \in VectorMarks(out) : MarkEmpty(out, i) \/ MarkBlock(out, i) \/ MarkBare(out, i)
    /\ Cardinality({i \in VectorMarks(out) : MarkBare(out, i)}) = EmptyElems(v)
    /\ Cardinality({i \in VectorMarks(out) : MarkEmpty(out, i)}) =
         CountOf(Colls(v), TRUE) - EmptyElems(v)
    /\ Cardinality({i \in VectorMarks(out) : MarkBlock(out, i)}) = CountOf(Colls(v), FALSE)
\* ------------------------------------------------ multi-line string values

\* Strings with a newline: <<quoted source, the content lines the encoder
\* writes>>
NewlineStrings ==
  {<<<<"\"", "a", "\\", "n", "b", "\"">>, <<<<"a">>, <<"b">>>>>>, <<<<"\"", "a", "\\", "n", "\"">>, <<<<"a">>>>>>, <<<<"\"", "\\", "n", "b", "\"">>, <<<<>>, <<"b">>>>>>,
   <<<<"\"", "a", "\\", "n", "\\", "n", "b", "\"">>, <<<<"a">>, <<>>, <<"b">>>>>>, <<<<"\"", " ", "a", "\\", "n", "b", " ", "c", "\"">>, <<<<" ", "a">>, <<"b", " ", "c">>>>>>,
   <<<<"\"", "a", "\\", "n", "b", "\\", "n", "c", "\"">>, <<<<"a">>, <<"b">>, <<"c">>>>>>, <<<<"\"", "x", ":", " ", "1", "\\", "n", "-", " ", "y", "\"">>, <<<<"x", ":", " ", "1">>, <<"-", " ", "y">>>>>>}

\* The lines above the key, for a key at indentation n.
KeyPath(n) ==
  CASE n = 0 -> <<>>
    [] n = 2 -> <<"j", ":", ":", "\n">>
    [] n = 4 -> <<"j", ":", ":", "\n", " ", " ", "i", ":", ":", "\n">>

KeyIndents == {0, 2, 4}

\* <<document, indentation of the key, content lines>>
NewlineTable ==
  {<<(KeyPath(n) \o Ln(n, <<"k", ":", " ">>)) \o s[1], n, s[2]>> : n \in KeyIndents, s \in NewlineStrings}

NewlineDocs ==
  {t[1] : t \in NewlineTable} \cup {<<"k", ":", " ", "\"", "a", "b", "\"">>, <<"j", ":", ":", "\n", " ", " ", "k", ":", " ", "\"", "a", "\"">>, <<"k", ":", " ", "1">>}

InitNewline == InitWith(NewlineDocs)

SpecNewline == InitNewline /\ [][Next]_vars

RECURSIVE IndentedLines(_, _)
IndentedLines(ls, n) ==
  IF ls = <<>> THEN <<>> ELSE (Ln(n, ls[1]) \o <<"\n">>) \o IndentedLines(Tail(ls), n)

\* The key line with the opening delimiter, the content lines at
\* indentation body, the closing delimiter at indentation close.
BlockText(n, ls, body, close) ==
  (((Ln(n, <<"k", ":", " ">>) \o mlFence) \o <<"\n">>) \o IndentedLines(ls, body))
  \o (Ln(close, mlFence) \o <<"\n">>)

EndsWith(text, tail) ==
  /\ Len(tail) <= Len(text)
  /\ SubSeq(text, Len(text) - Len(tail) + 1, Len(text)) = tail

\* C26: a string with a newline that is the value of a key at indentation n
\* is written as the opening delimiter on the key's line, the content lines
\* at indentation n + 2 and the closing delimiter at indentation n, and the
\* output decodes to the same value.
C26_BlockLayout ==
  \A t \in NewlineTable :
    /\ (data = t[1] /\ pc = "encoded") =>
         ~IsErr(encErr) /\ EndsWith(out, KeyPath(t[2]) \o BlockText(t[2], t[3], t[2] + 2, t[2]))
    /\ (data = t[1] /\ pc = "redecoded") => ~IsErr(err2) /\ v2 = v

\* What writeKVPair and marshalString do: the value is marshalled at the
\* key's indentation plus 2, and marshalString adds 2 more for the content
\* and closes at the indentation it was given. The parser wants the closing
\* delimiter at the key's indentation and does not take the output back.
BlockLayoutAsCoded ==
  \A t \in NewlineTable :
    /\ (data = t[1] /\ pc = "encoded") =>
         ~IsErr(encErr) /\ EndsWith(out, KeyPath(t[2]) \o BlockText(t[2], t[3], t[2] + 4, t[2] + 2))
    /\ (data = t[1] /\ pc = "redecoded") =>
         /\ IsErr(err2)
         /\ err2.kind = "multiline closing delimiter must be at same indentation as the key"
\* ------------------------------------------------------------------ bare keys

BareKeyBytes == {"a", "Z", "7", "_", "-"}

MaxKeyLen == 2

\* Keys the encoder writes bare: the strings of bare-key bytes, and the
\* keywords.
BareKeys ==
  UNION {[1..n -> BareKeyBytes] : n \in 1..MaxKeyLen}
  \cup {<<"t", "r", "u", "e">>, <<"n", "u", "l", "l">>, <<"i", "n", "f">>, <<"n", "a", "n">>, <<"a", "-", "b">>, <<"a", "_", "7">>, <<"0", "x", "1">>, <<"1", "e", "5">>, <<"-", "i", "n", "f">>}

\* <<document with the key quoted, key, the value it stands for>>
BareKeyTable ==
  {<<(Quote(k) \o <<":", " ", "1">>), k, VDict(k :> VInt(1))>> : k \in BareKeys}
  \cup {<<(<<"j", ":", ":", "\n", " ", " ">> \o Quote(k)) \o <<":", " ", "\"", "s", "\"">>, k, VDict(<<"j">> :> VDict(k :> VString(<<"s">>)))>> :
          k \in BareKeys}

InitBareKeys == InitWith({t[1] : t \in BareKeyTable})

SpecBareKeys == InitBareKeys /\ [][Next]_vars

\* The first token of a line that starts with the key and a colon.
FirstToken(key) == Call("scan", <<newLexer(key \o <<":", " ", "1">>)>>)

\* C27: a key the encoder writes bare is scanned as a key token with the same
\* text, and the encoder's output for a dict with such a key decodes to the
\* same dict.
C27_BareKeys ==
  \A t \in BareKeyTable :
    /\ (data = t[1] /\ pc = "decoded") => ~IsErr(err) /\ v = t[3]
    /\ (data = t[1] /\ pc = "encoded") =>
         /\ quoteKeyIfNeeded(t[2]) = t[2]
         /\ ~IsErr(FirstToken(t[2]).err)
         /\ FirstToken(t[2]).tok.Type = "Key"
         /\ FirstToken(t[2]).tok.Value = t[2]
    /\ (data = t[1] /\ pc = "redecoded") => ~IsErr(err2) /\ v2 = t[3]

\* What scanToken does: only a letter starts a bare key; a digit or a sign
\* starts a number, and an underscore is an unexpected character.
BareKeysAsCoded ==
  \A t \in BareKeyTable :
    /\ (data = t[1] /\ pc = "decoded") => ~IsErr(err) /\ v = t[3]
    /\ (data = t[1] /\ pc = "encoded") =>
         /\ quoteKeyIfNeeded(t[2]) = t[2]
         /\ IF isAlpha(t[2][1])
            THEN /\ ~IsErr(FirstToken(t[2]).err)
                 /\ FirstToken(t[2]).tok.Type = "Key"
                 /\ FirstToken(t[2]).tok.Value = t[2]
            ELSE IF t[2][1] = "_"
            THEN FirstToken(t[2]).err = LineErr(1, "unexpected character")
            ELSE FirstToken(t[2]).tok.Type \in {"Int", "Float", "Error"}
    /\ (data = t[1] /\ pc = "redecoded") =>
         IF isAlpha(t[2][1]) THEN ~IsErr(err2) /\ v2 = t[3] ELSE IsErr(err2)
\* ------------------------------------------------------ typed destinations

\* Unmarshal(data, p), p the destination.
DoUnmarshalInto ==
  /\ pc = "start"
  /\ dst.n < MaxDecodes
  /\ \E r \in {UnmarshalInto(data, dst)} :
       dst' = [dst EXCEPT !.before = dst.val, !.val = r.val, !.err = r.err, !.n = @ + 1]
  /\ UNCHANGED <<data, pc, v, err, ord1, out, encErr, ord2, out2, v2, err2, dec, calls, enc, scn, pool>>

\* One more Decode(p) on the Decoder made for data.
DoDecodeInto ==
  /\ pc = "start"
  /\ dst.n < MaxDecodes
  /\ \E p \in {Call("parse", <<dec>>)} :
       /\ dec' = p.lx
       /\ \E r \in {DecodeInto(p, dst)} :
            dst' = [dst EXCEPT !.before = dst.val, !.val = r.val, !.err = r.err, !.n = @ + 1]
  /\ UNCHANGED <<data, pc, v, err, ord1, out, encErr, ord2, out2, v2, err2, calls, enc, scn, pool>>

NextBind == DoUnmarshalInto \/ DoDecodeInto

\* struct { A int; B string }
TPair == TStruct(<<Field(<<"A">>, TInt), Field(<<"B">>, TString)>>)

\* struct { A int; S struct { X int; Y bool } }
TNest == TStruct(<<Field(<<"A">>, TInt), Field(<<"S">>, TStruct(<<Field(<<"X">>, TInt), Field(<<"Y">>, TBool)>>))>>)

PairOld == VStruct(<<VInt(5), VString(<<"o">>)>>)

NestOld == VStruct(<<VInt(5), VStruct(<<VInt(6), VBool(TRUE)>>)>>)

\* The destinations: the argument, the type, what the variable holds.
BindDests ==
  {Dest("pointer", TPair, Zero(TPair)), Dest("pointer", TPair, PairOld),
   Dest("pointer", TNest, Zero(TNest)), Dest("pointer", TNest, NestOld),
   Dest("pointer", TSlice(TInt), VNull), Dest("pointer", TSlice(TInt), VList(<<VInt(9)>>)),
   Dest("pointer", TMap(TInt), VNull), Dest("pointer", TMap(TInt), VDict(<<"o">> :> VInt(9))),
   Dest("pointer", TPtr(TPair), VNull), Dest("pointer", TPtr(TPair), VPtr(PairOld)),
   Dest("pointer", TSlice(TPair), VList(<<PairOld>>)),
   Dest("pointer", TAny, VString(<<"o">>)), Dest("pointer", TInt, VInt(5)),
   Dest("pointer", TString, VString(<<"o">>)), Dest("pointer", TBool, VBool(TRUE)),
   Dest("nil", TAny, VNull), Dest("notPointer", TInt, VInt(5)), Dest("nilPointer", TInt, VNull)}

BindDocs ==
  {<<"A", ":", " ", "1", "\n", "B", ":", " ", "\"", "x", "\"">>, <<"A", ":", " ", "1", "\n", "B", ":", " ", "2">>, <<"A", ":", " ", "\"", "x", "\"", "\n", "B", ":", " ", "\"", "y", "\"">>, <<"B", ":", " ", "\"", "x", "\"", "\n", "A", ":", " ", "t", "r", "u", "e">>, <<"A", ":", " ", "1">>, <<"B", ":", " ", "2">>,
   <<"A", ":", " ", "1", "\n", "S", ":", ":", "\n", " ", " ", "X", ":", " ", "2", "\n", " ", " ", "Y", ":", " ", "f", "a", "l", "s", "e">>, <<"A", ":", " ", "1", "\n", "S", ":", ":", "\n", " ", " ", "X", ":", " ", "2", "\n", " ", " ", "Y", ":", " ", "3">>, <<"A", ":", " ", "1", "\n", "S", ":", ":", "\n", " ", " ", "X", ":", " ", "t", "r", "u", "e", "\n", " ", " ", "Y", ":", " ", "f", "a", "l", "s", "e">>,
   <<"A", ":", " ", "1", "\n", "S", ":", " ", "4">>, <<"S", ":", ":", "\n", " ", " ", "X", ":", " ", "2", "\n", " ", " ", "Y", ":", " ", "3">>, <<"-", " ", "1", "\n", "-", " ", "2">>, <<"-", " ", "1", "\n", "-", " ", "\"", "x", "\"">>, <<"7">>, <<"\"", "s", "\"">>, <<"n", "u", "l", "l">>, <<"t", "r", "u", "e">>,
   <<"a", ":", " ", "1", "\n", "b", ":", " ", "2">>, <<"a", ":", " ", "1", "\n", "b", ":", " ", "\"", "x", "\"">>, <<"-", " ", ":", ":", "\n", " ", " ", "A", ":", " ", "1", "\n", " ", " ", "B", ":", " ", "\"", "x", "\"">>, <<"-", " ", ":", ":", "\n", " ", " ", "A", ":", " ", "1", "\n", " ", " ", "B", ":", " ", "2">>,
   <<"A", ":", " ", "1", "\n", "B", ":">>, <<"A", ":", " ", "1", "\n", " ", "B", ":", " ", "\"", "x", "\"">>, <<"A", ":", " ", "1", "\n", "B", ":", " ", "\"", "x">>, <<"-", " ", "1", "\n", "-">>}

InitBind ==
  /\ data \in BindDocs
  /\ pc = "start"
  /\ v = VNull
  /\ err = NoErr
  /\ ord1 = 0
  /\ out = <<>>
  /\ encErr = NoErr
  /\ ord2 = 0
  /\ out2 = <<>>
  /\ v2 = VNull
  /\ err2 = NoErr
  /\ dec = newLexer(data)
  /\ calls = <<>>
  /\ enc = EncIdle
  /\ scn = ScnStart
  /\ dst \in {[arg |-> d.arg, typ |-> d.typ, val |-> d.val, before |-> d.val, err |-> NoErr, n |-> 0] :
                d \in BindDests}
  /\ pool = PoolIdle

SpecBind == InitBind /\ [][NextBind]_vars

\* C28: when Unmarshal or Decode returns an error, the destination holds
\* exactly what it held before the call.
C28_NoPartialOutput ==
  (dst.n > 0 /\ IsErr(dst.err)) => dst.val = dst.before

\* What the set functions do: slices, maps and pointers are built aside and
\* stored at the end, scalars are stored when they fit, but setStruct sets
\* the fields of the destination in place, one after the other: when a field
\* fails, the fields before it keep their new values.
NoPartialOutputAsCoded ==
  (dst.n > 0 /\ IsErr(dst.err) /\ dst.val # dst.before) =>
    /\ dst.arg = "pointer"
    /\ dst.typ.k = "struct"
    /\ dst.err.kind = "error setting field"
\* ------------------------------------------------------------ the lookahead

MaxLooks == 5

\* One more l.next() on the lexer made for data.
DoNext ==
  /\ pc = "start"
  /\ calls = <<>>
  /\ Len(scn.toks) < MaxLooks
  /\ \E r \in {Call("next", <<scn.lx>>)} :
       scn' = [before |-> scn.lx, lx |-> r.lx, toks |-> Append(scn.toks, r.tok),
               ops |-> Append(scn.ops, "next")]
  /\ UNCHANGED <<data, pc, v, err, ord1, out, encErr, ord2, out2, v2, err2, dec, calls, enc, dst, pool>>

\* One more l.peek() on the lexer made for data.
DoPeek ==
  /\ pc = "start"
  /\ calls = <<>>
  /\ Len(scn.toks) < MaxLooks
  /\ \E r \in {Call("peek", <<scn.lx>>)} :
       scn' = [before |-> scn.lx, lx |-> r.lx, toks |-> Append(scn.toks, r.tok),
               ops |-> Append(scn.ops, "peek")]
  /\ UNCHANGED <<data, pc, v, err, ord1, out, encErr, ord2, out2, v2, err2, dec, calls, enc, dst, pool>>

NextLook == DoNext \/ DoPeek

LookDocs ==
  FuzzSeeds \cup
  {<<"k", ":", " ", "1">>, <<"k", ":", ":", " ", "1", ",", " ", "2">>, <<"-", " ", "1", "\n", "-", " ", "2">>, <<"k", ":", " ", "\"", "a", "\"", " ", "#", " ", "c", "\n", "j", ":", " ", "t", "r", "u", "e">>, <<"#", " ", "c", "\n", "k", ":", " ", "1", "\n">>, <<"a", ":", ":", "\n", " ", " ", "b", ":", " ", "1", "\n">>, <<"1", ",", " ", "2", ",", " ", "3">>,
   <<"k", " ", ":", " ", "1">>, <<"\"", "a", "\\", "q", "\"", " ", "b">>, <<"k", ":", " ", "\"", "a", "\\", "q", "\"", ",", " ", "2">>, <<"@", " ", "1">>, <<"k", ":", " ", "0", "1">>, <<"-", " ", "_", " ", "1">>, <<"#", "c", "\n", "k", ":", " ", "1">>, <<"k", ":", " ", "1", " ", "\n", "j", ":", " ", "2">>, <<"\"", "a">> , <<"\"", "\\", "x", "\"", " ", ":", " ", "1">>}

InitLook == InitWith(LookDocs)

SpecLook == InitLook /\ [][NextLook]_vars

\* C29: the lookahead buffer never holds more than one token; a peek and
\* the call after it, peek or next, return the same token; and after the
\* end of the input every call returns the end of the input.
C29_Lookahead ==
  /\ Len(Lookahead(scn.lx)) <= 1
  /\ \A i \in 1..(Len(scn.toks) - 1) :
       /\ scn.ops[i] = "peek" => scn.toks[i + 1] = scn.toks[i]
       /\ scn.toks[i].Type = "EOF" => scn.toks[i + 1].Type = "EOF"

\* What peek does: a token is kept in the buffer only when scan returned no
\* error. The errors of scanToken are not recorded in l.err, so the call
\* after a peek that failed scans on from where the error left the lexer.
LookaheadAsCoded ==
  /\ Len(Lookahead(scn.lx)) <= 1
  /\ \A i \in 1..(Len(scn.toks) - 1) :
       /\ (scn.ops[i] = "peek" /\ scn.toks[i].Type # "Error") => scn.toks[i + 1] = scn.toks[i]
       /\ scn.toks[i].Type = "EOF" => scn.toks[i + 1].Type = "EOF"

\* A peek has returned an error and the call after it another token.
PeekErrorLost ==
  \E i \in 1..(Len(scn.toks) - 1) :
    scn.ops[i] = "peek" /\ scn.toks[i].Type = "Error" /\ scn.toks[i + 1].Type \notin {"Error", "EOF"}
\* ------------------------------------------------------- concurrent encoding

\* The Encode calls that run concurrently, each on its own goroutine with its
\* own writer; the write calls the value of each call makes; the state
\* objects the run may allocate.
MaxCalls == 2

MaxChunks == 2

PoolCalls == 1..MaxCalls

\* A state object: the writer (the number of the call it belongs to, 0 for
\* nil) and the error; used tells that it has been through the pool.
StateObj(w, e) == [w |-> w, err |-> e, used |-> FALSE]

\* A call: its position in Encode, its state object, the write calls its
\* value still makes, whether its own writer or value has failed, the error
\* it has read, and whether its state came from the pool after a failed call.
CallStart == [pc |-> "idle", s |-> 0, todo |-> MaxChunks, own |-> FALSE, ret |-> NoErr, reused |-> FALSE]

InitPool ==
  /\ data = <<>>
  /\ pc = "start"
  /\ v = VNull
  /\ err = NoErr
  /\ ord1 = 0
  /\ out = <<>>
  /\ encErr = NoErr
  /\ ord2 = 0
  /\ out2 = <<>>
  /\ v2 = VNull
  /\ err2 = NoErr
  /\ dec = newLexer(data)
  /\ calls = <<>>
  /\ enc = EncIdle
  /\ scn = ScnStart
  /\ dst = DstIdle
  /\ pool = [objs |-> <<>>, free |-> {}, call |-> [g \in PoolCalls |-> CallStart],
             wr |-> [g \in PoolCalls |-> <<>>]]

poolRest == <<data, pc, v, err, ord1, out, encErr, ord2, out2, v2, err2, dec, calls, enc, scn, dst>>

At(g, where) == pool.call[g].pc = where

\* A putState that keeps the error.
clearErrKept(st) == st

\* s.err = nil of putState
clearErr(st) == [st EXCEPT !.err = NoErr]

\* newState: statePool.Get() returns an object that lies in the pool.
DoGetPooled(g) ==
  /\ At(g, "idle")
  /\ \E s \in pool.free :
       pool' = [pool EXCEPT !.free = @ \ {s},
                            !.call[g].s = s, !.call[g].pc = "got",
                            !.call[g].reused = pool.objs[s].used]
  /\ UNCHANGED poolRest

\* newState: statePool.Get() finds nothing and calls New.
DoGetNew(g) ==
  /\ At(g, "idle")
  /\ pool' = [pool EXCEPT !.objs = Append(@, StateObj(0, NoErr)),
                          !.call[g].s = Len(pool.objs) + 1, !.call[g].pc = "got"]
  /\ UNCHANGED poolRest

\* newState: s.w = w
DoSetWriter(g) ==
  /\ At(g, "got")
  /\ pool' = [pool EXCEPT !.objs[pool.call[g].s].w = g, !.call[g].pc = "marshal"]
  /\ UNCHANGED poolRest

\* state.write during marshalValue: nothing when an error is recorded;
\* otherwise the string goes to the state's writer, or the writer fails and
\* the error is recorded.
DoWrite(g) ==
  /\ At(g, "marshal")
  /\ pool.call[g].todo > 0
  /\ \E ok \in BOOLEAN :
       LET s == pool.call[g].s
           w == pool.objs[s].w
           k == MaxChunks + 1 - pool.call[g].todo
       IN IF IsErr(pool.objs[s].err)
          THEN ok /\ pool' = [pool EXCEPT !.call[g].todo = @ - 1]
          ELSE IF ok
          THEN pool' = [pool EXCEPT !.call[g].todo = @ - 1,
                                    !.wr[w] = Append(@, [by |-> g, k |-> k])]
          ELSE pool' = [pool EXCEPT !.call[g].todo = @ - 1,
                                    !.objs[s].err = PlainErr("write"),
                                    !.call[w].own = TRUE]
  /\ UNCHANGED poolRest

\* indirect(elem, &s.err) during marshalValue finds a cycle of pointers.
DoIndirectError(g) ==
  /\ At(g, "marshal")
  /\ pool.call[g].todo > 0
  /\ ~IsErr(pool.objs[pool.call[g].s].err)
  /\ pool' = [pool EXCEPT !.objs[pool.call[g].s].err = PlainErr("cyclic"),
                          !.call[g].own = TRUE, !.call[g].todo = @ - 1]
  /\ UNCHANGED poolRest

\* Encode: the final newline when no error is recorded.
DoEndLine(g) ==
  /\ At(g, "marshal")
  /\ pool.call[g].todo = 0
  /\ \E ok \in BOOLEAN :
       LET s == pool.call[g].s
           w == pool.objs[s].w
       IN IF IsErr(pool.objs[s].err)
          THEN ok /\ pool' = [pool EXCEPT !.call[g].pc = "readErr"]
          ELSE IF ok
          THEN pool' = [pool EXCEPT !.call[g].pc = "readErr",
                                    !.wr[w] = Append(@, [by |-> g, k |-> MaxChunks + 1])]
          ELSE pool' = [pool EXCEPT !.call[g].pc = "readErr",
                                    !.objs[s].err = PlainErr("write"),
                                    !.call[w].own = TRUE]
  /\ UNCHANGED poolRest

\* Encode: err := s.err
DoReadErr(g) ==
  /\ At(g, "readErr")
  /\ pool' = [pool EXCEPT !.call[g].ret = pool.objs[pool.call[g].s].err, !.call[g].pc = "clearW"]
  /\ UNCHANGED poolRest

\* putState: s.w = nil
DoClearWriter(g) ==
  /\ At(g, "clearW")
  /\ pool' = [pool EXCEPT !.objs[pool.call[g].s].w = 0, !.call[g].pc = "clearErr"]
  /\ UNCHANGED poolRest

\* putState: s.err = nil
DoClearErr(g) ==
  /\ At(g, "clearErr")
  /\ pool' = [pool EXCEPT !.objs[pool.call[g].s] = clearErr(@), !.call[g].pc = "put"]
  /\ UNCHANGED poolRest

\* putState: statePool.Put(s), and Encode returns err.
DoPut(g) ==
  /\ At(g, "put")
  /\ pool' = [pool EXCEPT !.free = @ \cup {pool.call[g].s},
                          !.objs[pool.call[g].s].used = IsErr(pool.call[g].ret),
                          !.call[g].pc = "done"]
  /\ UNCHANGED poolRest

\* The garbage collector empties the pool.
DoPoolDrop ==
  /\ pool.free # {}
  /\ \E g \in PoolCalls : At(g, "idle")
  /\ pool' = [pool EXCEPT !.free = {}]
  /\ UNCHANGED poolRest

NextPool ==
  \/ \E g \in PoolCalls : DoGetPooled(g)
  \/ \E g \in PoolCalls : DoGetNew(g)
  \/ \E g \in PoolCalls : DoSetWriter(g)
  \/ \E g \in PoolCalls : DoWrite(g)
  \/ \E g \in PoolCalls : DoIndirectError(g)
  \/ \E g \in PoolCalls : DoEndLine(g)
  \/ \E g \in PoolCalls : DoReadErr(g)
  \/ \E g \in PoolCalls : DoClearWriter(g)
  \/ \E g \in PoolCalls : DoClearErr(g)
  \/ \E g \in PoolCalls : DoPut(g)
  \/ DoPoolDrop

SpecPool == InitPool /\ [][NextPool]_vars

\* The calls that hold a state: after Get, before Put.
Holding(g) == pool.call[g].pc \notin {"idle", "done"}

\* All that a call writes: its chunks in order and the final newline.
FullOutput(g) == [k \in 1..(MaxChunks + 1) |-> [by |-> g, k |-> k]]

\* C30: each call holds its state object alone from newState to putState and
\* writes only to its own writer; a state taken from the pool has no error
\* recorded; a call fails only when its own writer or value fails, and a call
\* that returns no error has written all its output.
C30_PooledState ==
  \A g \in PoolCalls :
    /\ Holding(g) =>
         /\ pool.call[g].s \notin pool.free
         /\ \A h \in PoolCalls \ {g} : Holding(h) => pool.call[h].s # pool.call[g].s
    /\ (At(g, "marshal") \/ At(g, "readErr") \/ At(g, "clearW")) =>
         pool.objs[pool.call[g].s].w = g
    /\ \A i \in 1..Len(pool.wr[g]) : pool.wr[g][i].by = g
    /\ (At(g, "got") \/ (At(g, "marshal") /\ pool.call[g].todo = MaxChunks)) =>
         ~IsErr(pool.objs[pool.call[g].s].err)
    /\ IsErr(pool.call[g].ret) => pool.call[g].own
    /\ (At(g, "done") /\ ~IsErr(pool.call[g].ret)) => pool.wr[g] = FullOutput(g)

\* A call has returned no error and its full output on a state object that
\* came from the pool after a failed call, while another call has failed.
C30_Witness ==
  \E g \in PoolCalls : \E h \in PoolCalls \ {g} :
    /\ At(g, "done")
    /\ pool.call[g].reused
    /\ ~IsErr(pool.call[g].ret)
    /\ pool.wr[g] = FullOutput(g)
    /\ IsErr(pool.call[h].ret)
    /\ Holding(h) \/ At(h, "done")

====
